---------------------------- MODULE Spec2Model ----------------------------
(***************************************************************************)
(* A model of the INKAMI chapter processing pipeline                       *)
(* (apps/server/app): the job/chapter store, the chapter worker            *)
(* (enqueue_chapter_job, process_chapter), the page deduplication pass,    *)
(* the voice assignment with its per-job memo, and the TTS orchestrator.   *)
(*                                                                         *)
(* Texts are sequences of one-character strings.  Fractions are integers:  *)
(* voice parameters are hundredths, TTS waits are tenths of a second.      *)
(*                                                                         *)
(* The specifications share the variables:                                 *)
(*   Spec        the store, the API submission and the worker              *)
(*   SpecVoice   the worker on one submitted chapter, pages of several     *)
(*               speakers                                                  *)
(*   SpecNarrate the worker on one chapter submitted in narrate mode       *)
(*   SpecLong    the worker on one chapter of up to MaxLongPages pages,    *)
(*               extraction failing on some of them                        *)
(*   SpecSpeaker the worker on one tall page and two update_speaker        *)
(*               requests                                                  *)
(*   SpecStore   create_job and update_job called on known and unknown ids *)
(*   SpecGaps    the vision pass and gap recovery on one page of many      *)
(*               slices, a call of the vision model failing or not         *)
(*   SpecTTS     one TTSService.synthesize call against scripted providers *)
(*   SpecDedup   the page merge pass applied to candidate lists            *)
(*   SpecSegment _segment_vertical_ranges applied to page heights          *)
(*   SpecBoxes   the worker on one chapter whose page carries one to       *)
(*               MaxBoxEntries entries                                     *)
(***************************************************************************)
EXTENDS Integers, Sequences, FiniteSets, TLC

VARIABLES
    jobs,       \* redis hash "jobs":     job_id -> JobStatus record, or NoRecord
    chapters,   \* redis hash "chapters": chapter_id -> ChapterPayload, or NoRecord
    queue,      \* the rq queue: calls of process_chapter waiting for the worker
    api,        \* the API process inside enqueue_chapter_job
    wk,         \* the rq worker inside process_chapter
    runs,       \* per job: how the worker run of process_chapter ended
    tts,        \* SpecTTS: the synthesize call and what it did
    dd,         \* SpecDedup: the candidate list and the merge passes applied
    spk,        \* the API requests inside ChapterStore.update_speaker
    gp,         \* SpecGaps: a page's bubbles and what gap recovery did with them
    sg          \* SpecSegment: a page height and the ranges it is cut into

vars == <<jobs, chapters, queue, api, wk, runs, tts, dd, spk, gp, sg>>

-----------------------------------------------------------------------------
(* Bounds of the model *)

MaxJobs == 1        \* chapters submitted
MaxPages == 2       \* files per chapter
MaxCands == 3       \* SpecDedup: candidates per page
MaxChain == 2       \* SpecTTS: entries of tts_provider_priority
MaxVoicePages == 2    \* SpecVoice: files of the chapter
MaxVoiceBubbles == 2  \* SpecVoice: entries the vision model returns per page
MaxLongPages == 9     \* SpecLong: files of the chapter
MaxGapSlices == 11    \* SpecGaps: slices of the page
MaxStoreJobs == 3     \* SpecStore: job ids the callers of the store use
MaxBoxEntries == 5    \* SpecBoxes: entries the vision model returns for the page
MaxSegmentUnits == 24 \* SpecSegment: page heights up to this many times 250 rows

-----------------------------------------------------------------------------
(* Generic helpers *)

Min(a, b) == IF a <= b THEN a ELSE b
Max(a, b) == IF a >= b THEN a ELSE b

Range(s) == {s[i] : i \in 1..Len(s)}

\* the element of a one-element set; TheOne({e(x) : x \in {v}}) is e with v
\* for x, v written once
TheOne(S) == CHOOSE x \in S : TRUE

SeqsUpTo(S, n) == UNION {[1..k -> S] : k \in 0..n}

-----------------------------------------------------------------------------
(* Characters and str methods *)

UpperChars == <<"A","B","C","D","E","F","G","H","I","J","K","L","M",
                "N","O","P","Q","R","S","T","U","V","W","X","Y","Z">>
LowerChars == <<"a","b","c","d","e","f","g","h","i","j","k","l","m",
                "n","o","p","q","r","s","t","u","v","w","x","y","z">>
DigitChars == {"0","1","2","3","4","5","6","7","8","9"}
SpaceChars == {" ", "\n", "\t", "\r"}
QuoteChars == {"'", "\""}

IsUpper(c) == c \in Range(UpperChars)
IsLower(c) == c \in Range(LowerChars)
IsAlpha(c) == IsUpper(c) \/ IsLower(c)
IsAlnum(c) == IsAlpha(c) \/ c \in DigitChars

\* str.lower() on one character
LowerChar(c) ==
    IF IsUpper(c)
    THEN LowerChars[CHOOSE i \in 1..Len(UpperChars) : UpperChars[i] = c]
    ELSE c

\* str.lower()
LowerText(t) == [i \in 1..Len(t) |-> LowerChar(t[i])]

\* str.isalnum(): non-empty and every character alphanumeric
IsAlnumText(t) == Len(t) > 0 /\ \A i \in 1..Len(t) : IsAlnum(t[i])

\* p in s
IsSubstring(p, s) ==
    \E i \in 0..(Len(s) - Len(p)) : SubSeq(s, i + 1, i + Len(p)) = p

\* str.replace(c, with) for a single character c; with is a text
RECURSIVE ReplaceChar(_, _, _)
ReplaceChar(t, c, with) ==
    IF t = <<>> THEN <<>>
    ELSE (IF Head(t) = c THEN with ELSE <<Head(t)>>) \o ReplaceChar(Tail(t), c, with)

\* str.lstrip / rstrip / strip over a set of characters
RECURSIVE LStrip(_, _)
LStrip(t, S) ==
    IF t # <<>> /\ Head(t) \in S THEN LStrip(Tail(t), S) ELSE t

RECURSIVE RStrip(_, _)
RStrip(t, S) ==
    IF t # <<>> /\ t[Len(t)] \in S THEN RStrip(SubSeq(t, 1, Len(t) - 1), S) ELSE t

Strip(t, S) == RStrip(LStrip(t, S), S)

\* re.sub(r"\s+", " ", t)
RECURSIVE CollapseSpaces(_)
CollapseSpaces(t) ==
    IF t = <<>> THEN <<>>
    ELSE IF Head(t) \in SpaceChars
         THEN <<" ">> \o CollapseSpaces(LStrip(t, SpaceChars))
         ELSE <<Head(t)>> \o CollapseSpaces(Tail(t))

-----------------------------------------------------------------------------
(* tasks.py: text normalisation and the STEP 1 junk filter *)

\* _normalize_text: "|" and newline to space, ";" removed, leading and
\* trailing quote runs removed, whitespace runs collapsed, then strip()
_normalize_text(text) ==
    LET a == ReplaceChar(text, "|", <<" ">>)
        b == ReplaceChar(a, "\n", <<" ">>)
        c == ReplaceChar(b, ";", <<>>)
        d == RStrip(LStrip(c, QuoteChars), QuoteChars)
        e == CollapseSpaces(d)
    IN  Strip(e, SpaceChars)

APOLOGY_PATTERNS == {
    <<"i","'","m"," ","s","o","r","r","y",","," ","i"," ","c","a","n","'","t"," ","t","r","a","n","s","c","r","i","b","e">>,
    <<"i","'","m"," ","s","o","r","r","y",","," ","i"," ","c","a","n","'","t"," ","a","s","s","i","s","t">>,
    <<"i","'","m"," ","s","o","r","r","y",","," ","b","u","t"," ","i"," ","c","a","n","n","o","t">>,
    <<"i"," ","c","a","n","'","t"," ","s","e","e"," ","t","h","e"," ","s","p","e","e","c","h"," ","b","u","b","b","l","e">>,
    <<"i","'","m"," ","s","o","r","r","y",","," ","b","u","t"," ","i"," ","c","a","n","'","t">>,
    <<"i"," ","c","a","n","n","o","t"," ","a","s","s","i","s","t"," ","w","i","t","h"," ","t","h","a","t">>
}

HallucinationWords == {<<"j","a","s","o","n">>, <<"j","s","o","n">>}

\* the three "continue" filters of STEP 1 (True: the candidate is dropped)
IsJunk(normalized_text) ==
    \/ LowerText(normalized_text) \in HallucinationWords
    \/ Len(normalized_text) < 2 /\ ~IsAlnumText(normalized_text)
    \/ \E p \in APOLOGY_PATTERNS : IsSubstring(p, LowerText(normalized_text))

\* normalize_for_comparison: the comparison key of a lowercased text
normalize_for_comparison(text) ==
    ReplaceChar(ReplaceChar(ReplaceChar(ReplaceChar(text,
        " ", <<>>), "-", <<>>), "\n", <<>>), "\r", <<>>)

-----------------------------------------------------------------------------
(* difflib.SequenceMatcher(None, a, b).ratio(), as used by STEP 2.          *)
(* No junk; the autojunk heuristic needs len(b) >= 200 and never applies.  *)

\* length of the common run of a from i and b from j (1-based), inside
\* a[..ahi] and b[..bhi]
RECURSIVE RunLen(_, _, _, _, _, _)
RunLen(a, b, i, j, ahi, bhi) ==
    IF i <= ahi /\ j <= bhi /\ a[i] = b[j]
    THEN 1 + RunLen(a, b, i + 1, j + 1, ahi, bhi)
    ELSE 0

\* find_longest_match(alo, ahi, blo, bhi): the longest block, of those the
\* one starting earliest in a, of those the one starting earliest in b.
\* Windows are 1-based and inclusive; size 0 when nothing matches.
find_longest_match(a, b, alo, ahi, blo, bhi) ==
    LET Pos == (alo..ahi) \X (blo..bhi)
        len(p) == RunLen(a, b, p[1], p[2], ahi, bhi)
        best == IF Pos = {} THEN 0
                ELSE CHOOSE k \in 0..Len(a) :
                        /\ \E p \in Pos : len(p) = k
                        /\ \A p \in Pos : len(p) <= k
    IN  IF best = 0 THEN [i |-> alo, j |-> blo, size |-> 0]
        ELSE LET bi == CHOOSE i \in alo..ahi :
                          /\ \E j \in blo..bhi : len(<<i, j>>) = best
                          /\ \A i2 \in alo..(i - 1) :
                                \A j \in blo..bhi : len(<<i2, j>>) # best
                 bj == CHOOSE j \in blo..bhi :
                          /\ len(<<bi, j>>) = best
                          /\ \A j2 \in blo..(j - 1) : len(<<bi, j2>>) # best
             IN  [i |-> bi, j |-> bj, size |-> best]

\* get_matching_blocks: total size of the blocks found by recursing to the
\* left and to the right of each longest match
RECURSIVE MatchedChars(_, _, _, _, _, _)
MatchedChars(a, b, alo, ahi, blo, bhi) ==
    IF alo > ahi \/ blo > bhi THEN 0
    ELSE TheOne({IF m.size = 0 THEN 0
                 ELSE m.size
                      + MatchedChars(a, b, alo, m.i - 1, blo, m.j - 1)
                      + MatchedChars(a, b, m.i + m.size, ahi, m.j + m.size, bhi) :
                 m \in {find_longest_match(a, b, alo, ahi, blo, bhi)}})

\* ratio() >= num/den, with ratio() = 2.0 * matches / (len(a) + len(b)) and
\* 1.0 when both are empty
RatioAtLeast(a, b, num, den) ==
    IF Len(a) + Len(b) = 0 THEN num <= den
    ELSE 2 * MatchedChars(a, b, 1, Len(a), 1, Len(b)) * den >= num * (Len(a) + Len(b))

-----------------------------------------------------------------------------
(* tasks.py process_chapter STEP 2: deduplicate the page's candidates *)

\* the test that puts candidate j in the similar_group of the leader i:
\* substring_match and length_ratio > 0.7, or similarity >= 0.88
SimilarKeys(normalized_i, normalized_j) ==
    LET longer  == Max(Len(normalized_i), Len(normalized_j))
        shorter == Min(Len(normalized_i), Len(normalized_j))
        substring_match == \/ IsSubstring(normalized_i, normalized_j)
                           \/ IsSubstring(normalized_j, normalized_i)
        \* length_ratio = shorter / longer if longer else 1.0;  > 0.7
        ratio_ok == IF longer = 0 THEN TRUE ELSE 10 * shorter > 7 * longer
    IN  \/ substring_match /\ ratio_ok
        \/ RatioAtLeast(normalized_i, normalized_j, 88, 100)

CandKey(c) == normalize_for_comparison(c.lower)

\* similar_group of leader i: i first, then every other unused index that
\* matches it, in list order
similar_group(candidates, i, used_indices) ==
    LET others == {j \in 1..Len(candidates) :
                      /\ j # i
                      /\ j \notin used_indices
                      /\ SimilarKeys(CandKey(candidates[i]), CandKey(candidates[j]))}
    IN  [leader |-> i, members |-> {i} \cup others]

\* max(similar_group, key=len(key)): the first member of greatest key
\* length, in group order (the leader, then ascending index)
GroupOrderBefore(g, x, y) ==
    \/ x = g.leader /\ y # g.leader
    \/ x # g.leader /\ y # g.leader /\ x < y

\* the choice "keep the group's leader", which PickBest is compared with
PickLeader(candidates, g) == g.leader

PickBest(candidates, g) ==
    CHOOSE m \in g.members :
        \A o \in g.members \ {m} :
            \/ Len(CandKey(candidates[m])) > Len(CandKey(candidates[o]))
            \/ /\ Len(CandKey(candidates[m])) = Len(CandKey(candidates[o]))
               /\ GroupOrderBefore(g, m, o)

\* the loop over i: the groups formed, in order, each with its chosen member
RECURSIVE DedupGroups(_, _, _)
DedupGroups(candidates, i, used_indices) ==
    IF i > Len(candidates) THEN <<>>
    ELSE IF i \in used_indices THEN DedupGroups(candidates, i + 1, used_indices)
    ELSE TheOne({<<[leader |-> g.leader, members |-> g.members,
                     best |-> PickBest(candidates, g)]>>
                 \o DedupGroups(candidates, i + 1, used_indices \cup g.members) :
                 g \in {similar_group(candidates, i, used_indices)}})

\* unique_bubbles: (box, text, analysis) of each group's best member
Deduplicate(candidates) ==
    TheOne({[k \in 1..Len(groups) |->
                [box      |-> candidates[groups[k].best].box,
                 text     |-> candidates[groups[k].best].text,
                 analysis |-> candidates[groups[k].best].analysis]] :
            groups \in {DedupGroups(candidates, 1, {})}})

-----------------------------------------------------------------------------
(* String constants of the sources, as texts *)

S_male == <<"m","a","l","e">>
S_female == <<"f","e","m","a","l","e">>
S_unknown == <<"u","n","k","n","o","w","n">>
S_child == <<"c","h","i","l","d">>
S_kid == <<"k","i","d">>
S_boy == <<"b","o","y">>
S_girl == <<"g","i","r","l">>
S_teen == <<"t","e","e","n">>
S_young == <<"y","o","u","n","g">>
S_youth == <<"y","o","u","t","h">>
S_adult == <<"a","d","u","l","t">>
S_system == <<"s","y","s","t","e","m">>
S_ui == <<"u","i">>
S_computer == <<"c","o","m","p","u","t","e","r">>
S_hud == <<"h","u","d">>
S_panel == <<"p","a","n","e","l">>
S_sfx == <<"s","f","x">>
S_fx == <<"f","x">>
S_effect == <<"e","f","f","e","c","t">>
S_sound == <<"s","o","u","n","d">>
S_narration == <<"n","a","r","r","a","t","i","o","n">>
S_narrator == <<"n","a","r","r","a","t","o","r">>
S_thought == <<"t","h","o","u","g","h","t">>
S_dialogue == <<"d","i","a","l","o","g","u","e">>
S_neutral == <<"n","e","u","t","r","a","l">>
S_normal == <<"n","o","r","m","a","l">>
S_angry == <<"a","n","g","r","y">>
S_furious == <<"f","u","r","i","o","u","s">>
S_excited == <<"e","x","c","i","t","e","d">>
S_ecstatic == <<"e","c","s","t","a","t","i","c">>
S_happy == <<"h","a","p","p","y">>
S_playful == <<"p","l","a","y","f","u","l">>
S_amused == <<"a","m","u","s","e","d">>
S_sad == <<"s","a","d">>
S_melancholy == <<"m","e","l","a","n","c","h","o","l","y">>
S_serious == <<"s","e","r","i","o","u","s">>
S_calm == <<"c","a","l","m">>
S_scared == <<"s","c","a","r","e","d">>
S_nervous == <<"n","e","r","v","o","u","s">>
S_anxious == <<"a","n","x","i","o","u","s">>
S_sfx_autodetect == <<"s","f","x","_","a","u","t","o","d","e","t","e","c","t">>
S_impact == <<"i","m","p","a","c","t">>
S_young_adult == <<"y","o","u","n","g"," ","a","d","u","l","t">>
S_underscore == <<"_">>

\* "x or y" on strings: the first if it is non-empty
OrElse(x, y) == IF x # <<>> THEN x ELSE y

\* any(keyword in s for keyword in K)
ContainsAny(s, K) == \E k \in K : IsSubstring(k, s)

-----------------------------------------------------------------------------
(* vision.py: CharacterAnalysis from the metadata of a text entry.          *)
(* A VisionTextEntry is [text, speaker_gender, speaker_age, emotion, tone,  *)
(* bubble_type]; an absent (None) field is the empty text.                  *)

\* VisionTextEntry.has_metadata
has_metadata(entry) ==
    \/ entry.speaker_gender # <<>>
    \/ entry.speaker_age # <<>>
    \/ entry.emotion # <<>>
    \/ entry.tone # <<>>
    \/ entry.bubble_type # <<>>

\* VOICE_MAPPING.get(key, VOICE_MAPPING["narrator"])
VoiceMappingOrNarrator(voice_key) ==
    CASE voice_key = "child_female" -> "voice_child_f"
      [] voice_key = "young_female" -> "voice_young_f"
      [] voice_key = "adult_female" -> "voice_adult_f"
      [] voice_key = "child_male"   -> "voice_child_m"
      [] voice_key = "young_male"   -> "voice_young_m"
      [] voice_key = "adult_male"   -> "voice_adult_m"
      [] voice_key = "narrator"     -> "voice_narrator_f"
      [] voice_key = "system"       -> "voice_system"
      [] OTHER                      -> "voice_narrator_f"

_map_voice_key(gender, age, bubble_type) ==
    IF bubble_type \in {S_system, S_ui, S_computer, S_hud} THEN "system"
    ELSE IF bubble_type \in {S_sfx, S_fx, S_effect, S_sound} THEN "sfx"
    ELSE IF bubble_type \in {S_narration, S_narrator} THEN "narrator"
    ELSE IF gender = S_male THEN
        IF ContainsAny(age, {S_child, S_kid, S_boy}) THEN "child_male"
        ELSE IF ContainsAny(age, {S_teen, S_young, S_youth}) THEN "young_male"
        ELSE "adult_male"
    ELSE IF gender = S_female THEN
        IF ContainsAny(age, {S_child, S_kid, S_girl}) THEN "child_female"
        ELSE IF ContainsAny(age, {S_teen, S_young, S_youth}) THEN "young_female"
        ELSE "adult_female"
    \* unknown gender, every remaining bubble type
    ELSE IF bubble_type \in {S_thought} THEN "young_female"
    ELSE IF bubble_type \in {S_sfx} THEN "narrator"
    ELSE "young_female"

\* _emotion_to_settings: (stability, similarity, style) in hundredths
_emotion_to_settings(emotion) ==
    LET e == LowerText(emotion)
    IN  IF e \in {S_angry, S_furious, S_excited, S_ecstatic} THEN <<22, 68, 85>>
        ELSE IF e \in {S_happy, S_playful, S_amused} THEN <<35, 75, 60>>
        ELSE IF e \in {S_sad, S_melancholy, S_serious, S_calm} THEN <<65, 82, 35>>
        ELSE IF e \in {S_scared, S_nervous, S_anxious} THEN <<40, 72, 55>>
        ELSE <<50, 75, 20>>

_analysis_from_metadata(entry) ==
    LET gender == LowerText(OrElse(entry.speaker_gender, S_unknown))
        age == LowerText(entry.speaker_age)
        bubble_type == LowerText(entry.bubble_type)
        emotion == LowerText(OrElse(entry.emotion, S_neutral))
        tone == LowerText(OrElse(entry.tone, S_normal))
        voice_key == _map_voice_key(gender, age, bubble_type)
        settings == _emotion_to_settings(emotion)
        character_label ==
            OrElse(bubble_type, gender \o S_underscore \o OrElse(age, S_unknown))
    IN  [character_type   |-> character_label,
         emotion          |-> emotion,
         tone             |-> tone,
         voice_suggestion |-> VoiceMappingOrNarrator(voice_key),
         stability        |-> settings[1],
         similarity_boost |-> settings[2],
         style            |-> settings[3]]

-----------------------------------------------------------------------------
(* vision.py: analysis of an entry that carries no metadata *)

VisionSfxKeywords == {
    <<"b","o","o","m">>, <<"b","a","n","g">>, <<"p","o","w">>, <<"w","h","a","m">>,
    <<"s","l","a","m">>, <<"c","r","a","s","h">>, <<"c","l","a","n","g">>, <<"c","l","a","n","k">>,
    <<"s","n","a","p">>, <<"w","h","o","o","s","h">>, <<"t","h","u","d">>, <<"z","a","p">>,
    <<"k","a","b","o","o","m">>, <<"z","i","n","g">>
}

\* re.split(r"[^a-zA-Z]+", s): the maximal runs of letters, as a set
LetterRuns(s) ==
    {SubSeq(s, i, j) : <<i, j>> \in
        {p \in (1..Len(s)) \X (1..Len(s)) :
            /\ p[1] <= p[2]
            /\ \A k \in p[1]..p[2] : IsAlpha(s[k])
            /\ (p[1] = 1 \/ ~IsAlpha(s[p[1] - 1]))
            /\ (p[2] = Len(s) \/ ~IsAlpha(s[p[2] + 1]))}}

CountWhere(s, P(_)) == Cardinality({i \in 1..Len(s) : P(s[i])})

\* VisionService._looks_like_sfx
_looks_like_sfx(text) ==
    LET cleaned == Strip(text, SpaceChars)
        compact == ReplaceChar(cleaned, " ", <<>>)
        nletters == CountWhere(cleaned, IsAlpha)
        nupper == CountWhere(cleaned, IsUpper)
        keyword_match == LetterRuns(LowerText(cleaned)) \cap VisionSfxKeywords # {}
        \* re.fullmatch(r"[A-Z0-9!?~\\-]+", compact)
        punctuation_heavy ==
            /\ compact # <<>>
            /\ \A i \in 1..Len(compact) :
                  \/ IsUpper(compact[i])
                  \/ compact[i] \in DigitChars \cup {"!", "?", "~", "\\", "-"}
        \* re.search(r"(.)\1{2,}", compact)
        repeated_letters ==
            \E i \in 1..(Len(compact) - 2) :
                /\ compact[i] # "\n"
                /\ compact[i + 1] = compact[i]
                /\ compact[i + 2] = compact[i]
    IN  /\ cleaned # <<>>
        /\ Len(compact) <= 20
        /\ nletters > 0
        \* uppercase_ratio >= 0.7
        /\ 10 * nupper >= 7 * nletters
        /\ (keyword_match \/ punctuation_heavy \/ repeated_letters)

SfxAutodetectAnalysis ==
    [character_type   |-> S_sfx_autodetect,
     emotion          |-> S_neutral,
     tone             |-> S_impact,
     \* VOICE_MAPPING.get("sfx", VOICE_MAPPING["narrator"])
     voice_suggestion |-> VoiceMappingOrNarrator("sfx"),
     stability        |-> 30,
     similarity_boost |-> 85,
     style            |-> 70]

SystemKeywords == {
    <<"y","o","u"," ","a","r","e"," ","n","o","w">>, <<"s","y","s","t","e","m">>,
    <<"q","u","e","s","t">>, <<"m","i","s","s","i","o","n">>,
    <<"o","b","j","e","c","t","i","v","e">>, <<"s","t","a","t","u","s">>
}
WarriorKeywords == {
    <<"k","n","i","g","h","t">>, <<"i","r","o","n">>, <<"b","l","o","o","d">>,
    <<"s","w","o","r","d">>, <<"b","a","t","t","l","e">>, <<"f","i","g","h","t">>,
    <<"w","a","r","r","i","o","r">>, <<"s","o","l","d","i","e","r">>
}
AdultMaleKeywords == {
    <<"s","i","r">>, <<"c","a","p","t","a","i","n">>, <<"c","o","m","m","a","n","d","e","r">>,
    <<"m","a","s","t","e","r">>, <<"l","o","r","d">>, <<"k","i","n","g">>
}
YoungMaleKeywords == {
    <<"b","r","o">>, <<"d","u","d","e">>, <<"h","e","y">>, <<"y","e","a","h">>, <<"w","h","o","a">>
}
ChildKeywords == {
    <<"m","o","m">>, <<"m","o","m","m","y">>, <<"d","a","d">>, <<"d","a","d","d","y">>,
    <<"s","c","a","r","e","d">>, <<"w","a","n","n","a">>, <<"g","o","n","n","a">>
}
ElegantKeywords == {
    <<"g","r","a","c","e">>, <<"b","e","a","u","t","y">>, <<"e","l","e","g","a","n","t">>,
    <<"l","o","v","e","l","y">>, <<"d","e","l","i","c","a","t","e">>
}
WiseKeywords == {
    <<"a","n","c","i","e","n","t">>, <<"w","i","s","d","o","m">>, <<"e","l","d","e","r">>,
    <<"s","a","g","e">>, <<"e","x","p","e","r","i","e","n","c","e">>
}
ChildMaleHints == {
    <<"b","o","y">>, <<"s","o","n">>, <<"h","e">>, <<"h","i","m">>, <<"h","i","s">>
}
MaleTokens == {
    <<" ","h","e"," ">>, <<" ","h","i","s"," ">>, <<" ","h","i","m"," ">>, <<" ","s","i","r"," ">>,
    <<" ","l","o","r","d"," ">>, <<" ","m","r",".">>, <<" ","b","r","o","t","h","e","r"," ">>,
    <<" ","d","a","d"," ">>, <<" ","f","a","t","h","e","r"," ">>, <<" ","k","i","n","g"," ">>,
    <<" ","d","u","d","e"," ">>, <<" ","b","r","o"," ">>, <<" ","m","a","n"," ">>
}
FemaleTokens == {
    <<" ","s","h","e"," ">>, <<" ","h","e","r"," ">>, <<" ","h","e","r","s"," ">>,
    <<" ","m","a","'","a","m">>, <<" ","l","a","d","y"," ">>, <<" ","m","i","s","s"," ">>,
    <<" ","m","r","s",".">>, <<" ","s","i","s","t","e","r"," ">>, <<" ","m","o","m"," ">>,
    <<" ","m","o","t","h","e","r"," ">>, <<" ","q","u","e","e","n"," ">>,
    <<" ","g","i","r","l"," ">>
}

S_q == <<"?">>
S_qq == <<"?","?">>
S_dotsq == <<".",".",".","?">>
S_bang == <<"!">>
S_bangbang == <<"!","!">>
S_dots == <<".",".",".">>
S_sir == <<"s","i","r">>
S_lady == <<"l","a","d","y">>
S_madam == <<"m","a","d","a","m">>
S_confused == <<"c","o","n","f","u","s","e","d">>
S_questioning == <<"q","u","e","s","t","i","o","n","i","n","g">>
S_dramatic == <<"d","r","a","m","a","t","i","c">>
S_assertive == <<"a","s","s","e","r","t","i","v","e">>
S_emphatic == <<"e","m","p","h","a","t","i","c">>
S_thoughtful == <<"t","h","o","u","g","h","t","f","u","l">>
S_contemplative == <<"c","o","n","t","e","m","p","l","a","t","i","v","e">>

\* _infer_gender_from_text: "male", "female" or "" (None)
_infer_gender_from_text(text) ==
    LET padded == <<" ">> \o text \o <<" ">>
    IN  IF ContainsAny(padded, MaleTokens) THEN "male"
        ELSE IF ContainsAny(padded, FemaleTokens) THEN "female"
        ELSE ""

\* the archetype name as the text stored in character_type
ArchetypeText(a) ==
    CASE a = "child_female" -> S_child \o S_underscore \o S_female
      [] a = "young_female" -> S_young \o S_underscore \o S_female
      [] a = "adult_female" -> S_adult \o S_underscore \o S_female
      [] a = "child_male"   -> S_child \o S_underscore \o S_male
      [] a = "young_male"   -> S_young \o S_underscore \o S_male
      [] a = "adult_male"   -> S_adult \o S_underscore \o S_male
      [] a = "narrator"     -> S_narrator
      [] a = "system"       -> S_system

\* the punctuation tests of _analyze_from_text: each later test overrides
\* the earlier ones
PunctuationMood(text) ==
    LET q1 == IF IsSubstring(S_q, text)
              THEN IF IsSubstring(S_dotsq, text) \/ IsSubstring(S_qq, text)
                   THEN [emotion |-> S_confused, tone |-> S_questioning, stability |-> 30]
                   ELSE [emotion |-> S_neutral, tone |-> S_questioning, stability |-> 40]
              ELSE [emotion |-> S_neutral, tone |-> S_normal, stability |-> 50]
        q2 == IF IsSubstring(S_bang, text)
              THEN IF IsSubstring(S_bangbang, text)
                   THEN [emotion |-> IF Len(text) < 50 THEN S_excited ELSE S_angry,
                         tone |-> S_dramatic, stability |-> 20]
                   ELSE [emotion |-> S_assertive, tone |-> S_emphatic, stability |-> 35]
              ELSE q1
    IN  IF IsSubstring(S_dots, text)
        THEN [emotion |-> S_thoughtful, tone |-> S_contemplative, stability |-> 40]
        ELSE q2

\* VisionService._analyze_from_text; page_height is the image height
_analyze_from_text(text, bubble_box, page_height) ==
    TheOne({TheOne({
        LET is_system_message == has_system_keywords /\ ~has_warrior_keywords
            arch1 ==
                IF is_system_message THEN "system"
                ELSE IF has_child_keywords THEN
                    IF ContainsAny(text_lower, ChildMaleHints)
                    THEN "child_male" ELSE "child_female"
                ELSE IF has_warrior_keywords \/ ContainsAny(text_lower, AdultMaleKeywords)
                    THEN "adult_male"
                ELSE IF ContainsAny(text_lower, YoungMaleKeywords) THEN "young_male"
                ELSE IF ContainsAny(text_lower, WiseKeywords \cup ElegantKeywords)
                    THEN "adult_female"
                ELSE IF Len(text) < 30 /\ IsSubstring(S_q, text) THEN "young_female"
                ELSE IF q3.emotion \in {S_excited, S_assertive} THEN "young_male"
                ELSE "young_female"
            stab1 ==
                IF is_system_message THEN Max(q3.stability, 65)
                ELSE IF has_child_keywords THEN 35
                ELSE q3.stability
            arch2 ==
                IF ~is_system_message /\ gender_hint = "male" THEN
                    IF has_child_keywords THEN "child_male"
                    ELSE IF \/ has_warrior_keywords
                            \/ Len(text) > 70
                            \/ IsSubstring(S_sir, text_lower)
                        THEN "adult_male"
                    ELSE "young_male"
                ELSE IF ~is_system_message /\ gender_hint = "female" THEN
                    IF has_child_keywords THEN "child_female"
                    ELSE IF \/ Len(text) > 70
                            \/ IsSubstring(S_lady, text_lower)
                            \/ IsSubstring(S_madam, text_lower)
                        THEN "adult_female"
                    ELSE "young_female"
                ELSE arch1
            effective_height == IF page_height > 0 THEN page_height ELSE bubble_box[4]
            \* top_ratio = bubble_box[1] / max(1.0, effective_height) <= 0.15
            top_of_page == 100 * bubble_box[2] <= 15 * Max(1, effective_height)
            ui_like == top_of_page /\ Len(text) > 15 /\ ~has_warrior_keywords
            arch3 == IF ui_like THEN "system" ELSE arch2
            stab3 == IF ui_like THEN Max(stab1, 60) ELSE stab1
        IN  [character_type   |-> ArchetypeText(arch3),
             emotion          |-> q3.emotion,
             tone             |-> q3.tone,
             \* VOICE_MAPPING.get(voice_archetype, "voice_narrator_f")
             voice_suggestion |-> VoiceMappingOrNarrator(arch3),
             stability        |-> IF stab3 = 50 THEN base[1] ELSE Min(stab3, base[1]),
             similarity_boost |-> base[2],
             style            |-> base[3]] :
        has_system_keywords \in {ContainsAny(text_lower, SystemKeywords)},
        has_warrior_keywords \in {ContainsAny(text_lower, WarriorKeywords)},
        has_child_keywords \in {ContainsAny(text_lower, ChildKeywords)},
        gender_hint \in {_infer_gender_from_text(text_lower)},
        base \in {_emotion_to_settings(q3.emotion)}}) :
      text_lower \in {LowerText(text)},
      q3 \in {PunctuationMood(text)}})

\* VisionService._analysis_from_entry (_analysis_from_metadata never
\* returns None)
_analysis_from_entry(entry, fallback_text, bubble_box, page_height) ==
    IF has_metadata(entry) THEN _analysis_from_metadata(entry)
    ELSE IF _looks_like_sfx(fallback_text) THEN SfxAutodetectAnalysis
    ELSE _analyze_from_text(fallback_text, bubble_box, page_height)

-----------------------------------------------------------------------------
(* vision.py: boxes approximated for the entries of one slice *)

\* _approximate_bubble_boxes(count, width, height): int(x * 0.08) and the
\* like are integer divisions (exact for the sizes used here)
_approximate_bubble_boxes(count, width, height) ==
    IF count <= 0 THEN <<>>
    ELSE LET left_margin == (width * 8) \div 100
             right_margin == (width * 92) \div 100
             top_margin == (height * 5) \div 100
             bottom_margin == (height * 5) \div 100
             available_height == Max(100, height - top_margin - bottom_margin)
             slot_height == Max(140, available_height \div Max(1, count))
             top(idx) == top_margin + idx * slot_height
             bottom0(idx) == top(idx) + slot_height - ((slot_height * 2) \div 10)
             bottom1(idx) == IF bottom0(idx) > height - bottom_margin
                             THEN height - bottom_margin ELSE bottom0(idx)
             bottom(idx) == IF bottom1(idx) - top(idx) < 80
                            THEN top(idx) + 80 ELSE bottom1(idx)
         IN  [k \in 1..count |->
                <<left_margin, Max(0, top(k - 1)), right_margin, Min(height, bottom(k - 1))>>]

-----------------------------------------------------------------------------
(* tasks.py: bubble kind, and STEP 1 of process_chapter *)

SFX_KEYWORDS == {
    <<"b","o","o","m">>, <<"b","a","n","g">>, <<"k","r","a","a">>, <<"k","r","a","k">>,
    <<"w","h","a","m">>, <<"s","l","a","m">>, <<"s","n","a","p">>, <<"c","r","a","s","h">>,
    <<"t","h","u","d">>, <<"w","h","o","o","s","h">>, <<"f","w","o","o","s","h">>, <<"f","w","i","p">>,
    <<"s","w","o","o","s","h">>, <<"k","s","h","h">>, <<"p","o","w">>, <<"z","a","p">>
}

_bubble_kind_from_analysis(analysis) ==
    LET descriptor == LowerText(analysis.character_type)
    IN  IF ContainsAny(descriptor, {S_system, S_ui, S_computer, S_panel}) THEN "narration"
        ELSE IF ContainsAny(descriptor, {S_narration, S_narrator}) THEN "narration"
        ELSE IF IsSubstring(S_thought, descriptor) THEN "thought"
        ELSE IF ContainsAny(descriptor, {S_sfx, S_sound, S_fx}) THEN "sfx"
        ELSE "dialogue"

\* _looks_like_sfx_text (tasks.py)
_looks_like_sfx_text(text) ==
    LET trimmed == Strip(text, SpaceChars)
        \* len(trimmed.split()): the number of whitespace-separated words
        nwords == Cardinality({i \in 1..Len(trimmed) :
                      /\ trimmed[i] \notin SpaceChars
                      /\ (i = 1 \/ trimmed[i - 1] \in SpaceChars)})
        nletters == CountWhere(trimmed, IsAlpha)
        nupper == CountWhere(trimmed, IsUpper)
        \* re.fullmatch(r"[A-Z!?]{2,}", trimmed.upper())
        shout == /\ Len(trimmed) >= 2
                 /\ \A i \in 1..Len(trimmed) : IsAlpha(trimmed[i]) \/ trimmed[i] \in {"!", "?"}
    IN  /\ trimmed # <<>>
        /\ \/ nwords <= 3 /\ nletters > 0 /\ 10 * nupper >= 8 * nletters
           \/ ContainsAny(LowerText(trimmed), SFX_KEYWORDS)
           \/ shout

\* STEP 1: the candidates kept from the page's vision bubbles, each
\* (bubble_box, normalized_text, analysis, text_lower).  The bubble_type
\* computed here (with the narrate-mode sfx test) is not stored.
RECURSIVE CollectCandidates(_, _)
CollectCandidates(vision_bubbles, processing_mode) ==
    IF vision_bubbles = <<>> THEN <<>>
    ELSE LET b == Head(vision_bubbles)
             normalized_text == _normalize_text(b.text)
             rest == CollectCandidates(Tail(vision_bubbles), processing_mode)
         IN  IF IsJunk(normalized_text) THEN rest
             ELSE <<[box      |-> b.box,
                     text     |-> normalized_text,
                     analysis |-> b.analysis,
                     lower    |-> LowerText(normalized_text)]>> \o rest

-----------------------------------------------------------------------------
(* SpecDedup: STEP 1 and STEP 2 on the bubbles of one page *)

T_abcd == <<"a","b","c","d">>
T_abcde == <<"a","b","c","d","e">>
T_abcdef == <<"a","b","c","d","e","f">>
T_abxcd == <<"a","b","x","c","d">>
T_AB_CD_e == <<"A","B","-","C","D"," ","e">>
T_json == <<"j","s","o","n">>

DedupTexts == {T_abcd, T_abcde, T_abcdef, T_abxcd, T_AB_CD_e, T_json}


PlainEntry(text) ==
    [text |-> text, speaker_gender |-> <<>>, speaker_age |-> <<>>,
     emotion |-> <<>>, tone |-> <<>>, bubble_type |-> <<>>]

\* the bubbles a one-slice page yields for the texts, in reading order
BubblesOfTexts(texts, width, height) ==
    LET boxes == _approximate_bubble_boxes(Len(texts), width, height)
    IN  [k \in 1..Len(texts) |->
            [box      |-> boxes[k],
             text     |-> texts[k],
             analysis |-> _analysis_from_entry(PlainEntry(texts[k]), texts[k],
                                               boxes[k], height)]]

\* the STEP 2 output fed to STEP 2 again: text_lower is recomputed as STEP 1
\* computes it
AsCandidates(unique_bubbles) ==
    [k \in 1..Len(unique_bubbles) |->
        [box      |-> unique_bubbles[k].box,
         text     |-> unique_bubbles[k].text,
         analysis |-> unique_bubbles[k].analysis,
         lower    |-> LowerText(unique_bubbles[k].text)]]

DedupIdle == [stage |-> "idle"]

DedupInit ==
    \E texts \in SeqsUpTo(DedupTexts, MaxCands) :
        dd = [stage |-> "bubbles",
              vision_bubbles |-> BubblesOfTexts(texts, 1080, 1500)]

DedupCollect ==
    /\ dd.stage = "bubbles"
    /\ dd' = [stage |-> "candidates",
              vision_bubbles |-> dd.vision_bubbles,
              candidates |-> CollectCandidates(dd.vision_bubbles, "bring_to_life")]

DedupPass ==
    /\ dd.stage = "candidates"
    /\ dd' = [stage |-> "deduped",
              vision_bubbles |-> dd.vision_bubbles,
              candidates |-> dd.candidates,
              groups |-> DedupGroups(dd.candidates, 1, {}),
              unique_bubbles |-> Deduplicate(dd.candidates)]

DedupAgain ==
    /\ dd.stage = "deduped"
    /\ dd' = [stage |-> "again",
              vision_bubbles |-> dd.vision_bubbles,
              candidates |-> dd.candidates,
              groups |-> dd.groups,
              unique_bubbles |-> dd.unique_bubbles,
              again |-> Deduplicate(AsCandidates(dd.unique_bubbles))]

-----------------------------------------------------------------------------
(* tts.py: TTSService.  A provider answers each HTTP request with a status *)
(* code, or the request itself raises (NetErr).  A script is the sequence  *)
(* of answers one provider call receives, request by request.              *)

HttpStatuses == {200, 429, 401, 500}
HttpAnswer(code) == [raises |-> FALSE, status_code |-> code]
\* requests.post raises instead of returning a response
NetErr == [raises |-> TRUE, status_code |-> 0]
Answers == {HttpAnswer(code) : code \in HttpStatuses} \cup {NetErr}

\* the answer to the k-th request of a call
AnswerAt(script, k) == IF k <= Len(script) THEN script[k] ELSE HttpAnswer(200)

\* response.raise_for_status() raises
IsHttpError(answer) == ~answer.raises /\ answer.status_code >= 400

\* a settings key: "" is unset (None or empty), " " is blank but truthy
KeyValues == {"", " ", "sk-key"}
KeyTruthy(key) == key # ""
\* (key or "").strip()
KeyStripped(key) == IF key = " " THEN "" ELSE key

OPENAI_MAX_ATTEMPTS == 5
\* min(2.0, 0.4 * (attempt + 1)), in tenths of a second
OpenAIWait(attempt) == Min(20, 4 * (attempt + 1))

\* the retry loop with a sixth attempt, which OpenAILoop is compared with
RECURSIVE OpenAILoopSix(_, _, _)
OpenAILoopSix(script, attempt, waits) ==
    IF attempt >= OPENAI_MAX_ATTEMPTS + 1
    THEN [ok |-> FALSE, requests |-> attempt, waits |-> waits, error |-> "HTTPError429"]
    ELSE LET answer == AnswerAt(script, attempt + 1)
         IN  IF answer.raises
             THEN [ok |-> FALSE, requests |-> attempt + 1, waits |-> waits,
                   error |-> "ConnectionError"]
             ELSE IF answer.status_code = 429
             THEN OpenAILoopSix(script, attempt + 1, Append(waits, OpenAIWait(attempt)))
             ELSE IF IsHttpError(answer)
             THEN [ok |-> FALSE, requests |-> attempt + 1, waits |-> waits,
                   error |-> "UnboundLocalError"]
             ELSE [ok |-> TRUE, requests |-> attempt + 1, waits |-> waits, error |-> ""]

\* the retry loop of _synthesize_openai from `attempt` (0-based) on;
\* waits are the sleeps made so far
RECURSIVE OpenAILoop(_, _, _)
OpenAILoop(script, attempt, waits) ==
    IF attempt >= OPENAI_MAX_ATTEMPTS
    THEN \* for-else: every attempt was rate limited, last_error is raised
         [ok |-> FALSE, requests |-> attempt, waits |-> waits, error |-> "HTTPError429"]
    ELSE LET answer == AnswerAt(script, attempt + 1)
         IN  IF answer.raises
             THEN [ok |-> FALSE, requests |-> attempt + 1, waits |-> waits,
                   error |-> "ConnectionError"]
             ELSE IF answer.status_code = 429
             THEN OpenAILoop(script, attempt + 1, Append(waits, OpenAIWait(attempt)))
             ELSE IF IsHttpError(answer)
             THEN \* break with audio_bytes unbound: the use below raises
                  [ok |-> FALSE, requests |-> attempt + 1, waits |-> waits,
                   error |-> "UnboundLocalError"]
             ELSE [ok |-> TRUE, requests |-> attempt + 1, waits |-> waits, error |-> ""]

_synthesize_openai(api_key, script) ==
    IF KeyStripped(api_key) = ""
    THEN [ok |-> FALSE, requests |-> 0, waits |-> <<>>, error |-> "RuntimeError"]
    ELSE OpenAILoop(script, 0, <<>>)

\* a second request sent after a failed one, which _synthesize_elevenlabs
\* is compared with
_synthesize_elevenlabs_twice(api_key, script) ==
    IF KeyStripped(api_key) = ""
    THEN [ok |-> FALSE, requests |-> 0, waits |-> <<>>, error |-> "RuntimeError"]
    ELSE LET answer == AnswerAt(script, 1)
         IN  IF answer.raises \/ IsHttpError(answer)
             THEN [ok |-> FALSE, requests |-> 2, waits |-> <<>>, error |-> "HTTPError"]
             ELSE [ok |-> TRUE, requests |-> 1, waits |-> <<>>, error |-> ""]

_synthesize_elevenlabs(api_key, script) ==
    IF KeyStripped(api_key) = ""
    THEN [ok |-> FALSE, requests |-> 0, waits |-> <<>>, error |-> "RuntimeError"]
    ELSE LET answer == AnswerAt(script, 1)
         IN  IF answer.raises
             THEN [ok |-> FALSE, requests |-> 1, waits |-> <<>>, error |-> "ConnectionError"]
             ELSE IF IsHttpError(answer)
             THEN [ok |-> FALSE, requests |-> 1, waits |-> <<>>, error |-> "HTTPError"]
             ELSE [ok |-> TRUE, requests |-> 1, waits |-> <<>>, error |-> ""]

\* the key prefix of the stored audio names the provider that produced it
AudioUrlOf(provider) == IF provider = "openai" THEN "tts_openai/" ELSE "tts/"

\* provider_chain: the comma-separated items, stripped, empty ones dropped
ProviderChain(priority_items) ==
    LET NonEmpty(x) == x # ""
    IN  SelectSeq(priority_items, NonEmpty)

\* the chain read from its end, which ProviderAt is compared with
ProviderAtReversed(settings, pos) ==
    LET chain == ProviderChain(settings.tts_provider_priority)
        at == Len(chain) + 1 - pos
    IN  IF pos <= Len(chain)
        THEN IF chain[at] = "elevenlabs" /\ KeyTruthy(settings.elevenlabs_api_key)
             THEN "elevenlabs"
             ELSE IF chain[at] = "openai" /\ KeyTruthy(settings.openai_api_key)
             THEN "openai"
             ELSE "skip"
        ELSE IF KeyTruthy(settings.openai_api_key) THEN "forced_openai" ELSE "none"

\* the provider the call turns to at chain position pos: a chain entry whose
\* branch is taken, "skip" for an entry no branch takes, and after the
\* chain the forced OpenAI attempt or "none"
ProviderAt(settings, pos) ==
    LET chain == ProviderChain(settings.tts_provider_priority)
    IN  IF pos <= Len(chain)
        THEN IF chain[pos] = "elevenlabs" /\ KeyTruthy(settings.elevenlabs_api_key)
             THEN "elevenlabs"
             ELSE IF chain[pos] = "openai" /\ KeyTruthy(settings.openai_api_key)
             THEN "openai"
             ELSE "skip"
        ELSE IF KeyTruthy(settings.openai_api_key) THEN "forced_openai" ELSE "none"

\* a call of synthesize that has just been entered
SynthStart(settings) ==
    [stage |-> "chain", settings |-> settings, pos |-> 1, log |-> <<>>,
     audio_url |-> "", error |-> ""]

\* one turn of synthesize: an iteration of the loop over provider_chain, or
\* what follows the loop.  `script` is what the provider answers when one
\* is called.
SynthStep(s, script) ==
    LET chain == ProviderChain(s.settings.tts_provider_priority)
        p == ProviderAt(s.settings, s.pos)
        r == IF p = "elevenlabs"
             THEN _synthesize_elevenlabs(s.settings.elevenlabs_api_key, script)
             ELSE _synthesize_openai(s.settings.openai_api_key, script)
        name == IF p = "elevenlabs" THEN "elevenlabs" ELSE "openai"
        entry == [provider |-> name, pos |-> s.pos, forced |-> p = "forced_openai",
                  answers |-> SubSeq(script, 1, Min(r.requests, Len(script))),
                  requests |-> r.requests, waits |-> r.waits,
                  ok |-> r.ok, error |-> r.error]
    IN  IF p = "skip" THEN [s EXCEPT !.pos = s.pos + 1]
        ELSE IF p = "none"
        THEN [s EXCEPT !.stage = "raised", !.error = "RuntimeError"]
        ELSE IF r.ok
        THEN [s EXCEPT !.stage = "returned", !.log = Append(s.log, entry),
                       !.audio_url = AudioUrlOf(name)]
        ELSE IF p = "forced_openai"
        THEN [s EXCEPT !.stage = "raised", !.log = Append(s.log, entry),
                       !.error = r.error]
        ELSE [s EXCEPT !.pos = s.pos + 1, !.log = Append(s.log, entry)]

\* synthesize run to its end; scripts[k] answers the k-th provider call
RECURSIVE SynthRun(_, _)
SynthRun(s, scripts) ==
    IF s.stage # "chain" THEN s
    ELSE IF ProviderAt(s.settings, s.pos) \in {"skip", "none"}
    THEN SynthRun(SynthStep(s, <<>>), scripts)
    ELSE SynthRun(SynthStep(s, IF scripts = <<>> THEN <<>> ELSE Head(scripts)),
                  IF scripts = <<>> THEN <<>> ELSE Tail(scripts))

synthesize(settings, scripts) == SynthRun(SynthStart(settings), scripts)

\* _fallback_tts: the degraded result (no caller in the sources)
_fallback_tts == [stage |-> "returned", audio_url |-> ""]

-----------------------------------------------------------------------------
(* tasks.py: the texts of STEP 3, and tts.py _approximate_word_times *)

\* str.split(): the maximal runs of non-whitespace characters
RECURSIVE Words(_)
Words(t) ==
    LET s == LStrip(t, SpaceChars)
        n == IF \E i \in 1..Len(s) : s[i] \in SpaceChars
             THEN (CHOOSE i \in 1..Len(s) :
                      s[i] \in SpaceChars /\ \A k \in 1..(i - 1) : s[k] \notin SpaceChars) - 1
             ELSE Len(s)
    IN  IF s = <<>> THEN <<>>
        ELSE <<SubSeq(s, 1, n)>> \o Words(SubSeq(s, n + 1, Len(s)))

\* " ".join(words)
RECURSIVE JoinWords(_)
JoinWords(words) ==
    IF words = <<>> THEN <<>>
    ELSE IF Len(words) = 1 THEN words[1]
    ELSE words[1] \o <<" ">> \o JoinWords(Tail(words))

SegmentPunctuation == {",", ".", ";", "!", "?"}

\* re.split(r"([,.;!?])", text) read in pairs: each segment with the
\* punctuation mark that ends it ("" after the last segment)
RECURSIVE SplitSegments(_)
SplitSegments(text) ==
    IF \E i \in 1..Len(text) : text[i] \in SegmentPunctuation
    THEN LET i == CHOOSE i \in 1..Len(text) :
                      /\ text[i] \in SegmentPunctuation
                      /\ \A k \in 1..(i - 1) : text[k] \notin SegmentPunctuation
         IN  <<[segment |-> SubSeq(text, 1, i - 1), punctuation |-> <<text[i]>>]>>
             \o SplitSegments(SubSeq(text, i + 1, Len(text)))
    ELSE <<[segment |-> text, punctuation |-> <<>>]>>

\* the loop over the words of one segment
RECURSIVE DedupeWords(_, _, _, _, _)
DedupeWords(words, window, buffer, last_phrases, deduped_words) ==
    IF words = <<>> THEN deduped_words
    ELSE LET appended == Append(buffer, Head(words))
             buffer1 == IF Len(appended) > window THEN Tail(appended) ELSE appended
             phrase == LowerText(JoinWords(buffer1))
         IN  IF phrase \in last_phrases
             THEN DedupeWords(Tail(words), window, SubSeq(buffer1, 1, Len(buffer1) - 1),
                              last_phrases, deduped_words)
             ELSE DedupeWords(Tail(words), window, buffer1, last_phrases \cup {phrase},
                              Append(deduped_words, Head(words)))

RECURSIVE CleanSegments(_)
CleanSegments(segments) ==
    IF segments = <<>> THEN <<>>
    ELSE LET segment == Strip(Head(segments).segment, SpaceChars)
             words == Words(segment)
             window == Max(1, Min(4, Len(words) \div 2))
             cleaned == JoinWords(DedupeWords(words, window, <<>>, {}, <<>>))
             kept == Strip(cleaned \o Head(segments).punctuation, SpaceChars)
         IN  IF segment = <<>> \/ kept = <<>> THEN CleanSegments(Tail(segments))
             ELSE <<kept>> \o CleanSegments(Tail(segments))

_clean_redundant_phrases(text) ==
    IF Len(text) < 5 THEN text
    ELSE LET final_text == JoinWords(CleanSegments(SplitSegments(text)))
         IN  IF final_text # <<>> THEN final_text ELSE text

\* should_soften(token): letters, none of them lower case, and no "."
should_soften(token) ==
    /\ \E i \in 1..Len(token) : IsAlpha(token[i])
    /\ \A i \in 1..Len(token) : ~IsLower(token[i])
    /\ \A i \in 1..Len(token) : token[i] # "."

RECURSIVE _humanize_caps_for_tts(_)
_humanize_caps_for_tts(text) ==
    IF text = <<>> THEN <<>>
    ELSE IF Head(text) \in SpaceChars
    THEN <<Head(text)>> \o _humanize_caps_for_tts(Tail(text))
    ELSE LET n == IF \E i \in 1..Len(text) : text[i] \in SpaceChars
                  THEN (CHOOSE i \in 1..Len(text) :
                           text[i] \in SpaceChars
                           /\ \A k \in 1..(i - 1) : text[k] \notin SpaceChars) - 1
                  ELSE Len(text)
             token == SubSeq(text, 1, n)
         IN  (IF should_soften(token) THEN LowerText(token) ELSE token)
             \o _humanize_caps_for_tts(SubSeq(text, n + 1, Len(text)))

EndsWith(t, suffix) ==
    Len(t) >= Len(suffix) /\ SubSeq(t, Len(t) - Len(suffix) + 1, Len(t)) = suffix

\* the one character U+2026
EllipsisChar == "U+2026"
S_ellipsis == <<EllipsisChar>>
S_curious == <<"c","u","r","i","o","u","s">>
S_hesitant == <<"h","e","s","i","t","a","n","t">>

_build_tts_delivery_text(text, analysis) ==
    LET trimmed == Strip(text, SpaceChars)
        tone == LowerText(analysis.tone)
        emotion == LowerText(analysis.emotion)
    IN  IF EndsWith(trimmed, S_q) THEN trimmed \o S_q
        ELSE IF EndsWith(trimmed, S_bang) THEN trimmed \o S_bang
        ELSE IF EndsWith(trimmed, S_dots) \/ EndsWith(trimmed, S_ellipsis)
        THEN RStrip(trimmed, {".", EllipsisChar}) \o S_ellipsis
        ELSE IF tone \in {S_questioning, S_curious} THEN trimmed \o S_q
        ELSE IF tone \in {S_dramatic, S_excited} \/ emotion \in {S_angry, S_excited}
        THEN trimmed \o S_bang
        ELSE IF tone \in {S_sad, S_hesitant} THEN trimmed \o S_ellipsis
        ELSE trimmed

\* word timings in hundredths of a second: max(0.25, len(word) * 0.04) each
RECURSIVE WordTimesFrom(_, _)
WordTimesFrom(words, cursor) ==
    IF words = <<>> THEN <<>>
    ELSE LET duration == Max(25, Len(Head(words)) * 4)
         IN  <<[word |-> Head(words), start |-> cursor, end |-> cursor + duration]>>
             \o WordTimesFrom(Tail(words), cursor + duration)

_approximate_word_times(text) == WordTimesFrom(Words(text), 0)

\* str.title(): each run of letters starts upper case and continues lower
UpperChar(c) ==
    IF IsLower(c)
    THEN UpperChars[CHOOSE i \in 1..Len(LowerChars) : LowerChars[i] = c]
    ELSE c

Title(t) ==
    [i \in 1..Len(t) |->
        IF i = 1 \/ ~IsAlpha(t[i - 1]) THEN UpperChar(t[i]) ELSE LowerChar(t[i])]

-----------------------------------------------------------------------------
(* vision.py: detect_and_read_all_bubbles.  An image is a record          *)
(* [ok, width, height] (ok: it opens); what the vision model answers for  *)
(* one slice is a record [raises, entries], entries being the parsed      *)
(* entries of the answer (none for an empty or unparsable answer).        *)

MAX_SLICE_HEIGHT == 1500
SLICE_OVERLAP == 1000

RECURSIVE SegmentsFrom(_, _, _, _)
SegmentsFrom(height, max_height, overlap, start) ==
    LET end == Min(height, start + max_height)
    IN  IF end >= height THEN <<<<start, end>>>>
        ELSE <<<<start, end>>>> \o SegmentsFrom(height, max_height, overlap, Max(0, end - overlap))

\* _segment_vertical_ranges(height, max_height, overlap); step is computed
\* (line 596) and read by no statement
SegmentVerticalRanges(height, max_height, overlap) ==
    IF height <= max_height THEN <<<<0, height>>>>
    ELSE IF height <= 0 THEN <<>>
    ELSE SegmentsFrom(height, max_height, Min(overlap, max_height \div 2), 0)

\* slices that follow each other without overlap, which
\* _segment_vertical_ranges is compared with
SegmentsAbutting(height) ==
    IF height <= MAX_SLICE_HEIGHT THEN <<<<0, height>>>>
    ELSE SegmentsFrom(height, MAX_SLICE_HEIGHT, 0, 0)

\* _segment_vertical_ranges(height): max_height and overlap at their defaults
_segment_vertical_ranges(height) ==
    IF height <= MAX_SLICE_HEIGHT THEN <<<<0, height>>>>
    ELSE IF height <= 0 THEN <<>>
    ELSE SegmentsFrom(height, MAX_SLICE_HEIGHT,
                      Min(SLICE_OVERLAP, MAX_SLICE_HEIGHT \div 2), 0)

_entry_signature(text, box) ==
    <<CollapseSpaces(Strip(LowerText(text), SpaceChars)), ((box[2] + box[4]) \div 2) \div 60>>

\* the loop over the entries of one slice, from entry idx (1-based) on;
\* acc = [bubbles, seen_signatures]
RECURSIVE SliceEntries(_, _, _, _, _, _)
SliceEntries(entries, idx, slice_boxes, start_y, height, acc) ==
    IF idx > Len(entries) THEN acc
    ELSE LET text == Strip(entries[idx].text, SpaceChars)
             box == slice_boxes[idx]
             adjusted_box == <<box[1], box[2] + start_y, box[3], box[4] + start_y>>
             signature == _entry_signature(text, adjusted_box)
         IN  IF text = <<>> \/ signature \in acc.seen_signatures
             THEN SliceEntries(entries, idx + 1, slice_boxes, start_y, height, acc)
             ELSE SliceEntries(entries, idx + 1, slice_boxes, start_y, height,
                     [bubbles |-> Append(acc.bubbles,
                                    [box |-> adjusted_box, text |-> text,
                                     analysis |-> _analysis_from_entry(entries[idx], text,
                                                                       adjusted_box, height)]),
                      seen_signatures |-> acc.seen_signatures \cup {signature}])

\* the loop over the slices, from slice seg_index on; "raised" once a call
\* of the vision model raises
RECURSIVE SliceLoop(_, _, _, _, _)
SliceLoop(image, segments, answers, seg_index, acc) ==
    IF seg_index > Len(segments) THEN [raised |-> FALSE, bubbles |-> acc.bubbles]
    ELSE LET start_y == segments[seg_index][1]
             end_y == segments[seg_index][2]
             segment_height == end_y - start_y
             answer == IF seg_index <= Len(answers) THEN answers[seg_index]
                       ELSE [raises |-> FALSE, entries |-> <<>>]
         IN  IF answer.raises THEN [raised |-> TRUE, bubbles |-> acc.bubbles]
             ELSE SliceLoop(image, segments, answers, seg_index + 1,
                     SliceEntries(answer.entries, 1,
                                  _approximate_bubble_boxes(Len(answer.entries),
                                                            image.width, segment_height),
                                  start_y, image.height, acc))

detect_and_read_all_bubbles(openai_api_key, image, answers) ==
    IF ~KeyTruthy(openai_api_key) THEN <<>>
    ELSE IF ~image.ok THEN <<>>
    ELSE TheOne({IF r.raised THEN <<>> ELSE r.bubbles :
                 r \in {SliceLoop(image, _segment_vertical_ranges(image.height), answers, 1,
                                  [bubbles |-> <<>>, seen_signatures |-> {}])}})

-----------------------------------------------------------------------------
(* tasks.py: _recover_missing_bubbles *)

MIN_GAP_HEIGHT == 380
MAX_GAP_REGIONS == 5

\* sorted(bubbles, key=top of the box): stable
RECURSIVE InsertByTop(_, _)
InsertByTop(sorted, b) ==
    IF sorted = <<>> THEN <<b>>
    ELSE IF Head(sorted).box[2] <= b.box[2]
    THEN <<Head(sorted)>> \o InsertByTop(Tail(sorted), b)
    ELSE <<b>> \o sorted

RECURSIVE SortByTop(_)
SortByTop(bubbles) ==
    IF bubbles = <<>> THEN <<>>
    ELSE InsertByTop(SortByTop(SubSeq(bubbles, 1, Len(bubbles) - 1)), bubbles[Len(bubbles)])

\* the gaps between the sorted bubbles, then the gap below the last one
RECURSIVE GapsFrom(_, _, _)
GapsFrom(sorted_bubbles, prev_bottom, total_height) ==
    IF sorted_bubbles = <<>>
    THEN IF total_height - prev_bottom >= MIN_GAP_HEIGHT
         THEN <<<<prev_bottom, total_height>>>> ELSE <<>>
    ELSE LET top == Max(0, Head(sorted_bubbles).box[2])
             here == IF top - prev_bottom >= MIN_GAP_HEIGHT
                     THEN <<<<prev_bottom, Min(top, total_height)>>>> ELSE <<>>
         IN  here \o GapsFrom(Tail(sorted_bubbles),
                              Max(prev_bottom, Head(sorted_bubbles).box[4]), total_height)

\* the loop over gaps[:MAX_GAP_REGIONS], from the k-th gap on: for each gap
\* whose crop is handed to the vision service, the region and the bubbles
\* found in it, moved to page coordinates; gap_answers[k] is what the
\* vision model answers for the k-th gap
RECURSIVE RecoverGaps(_, _, _, _, _)
RecoverGaps(gaps, k, image_width, openai_api_key, gap_answers) ==
    IF k > Len(gaps) THEN <<>>
    ELSE LET gap_start == gaps[k][1]
             gap_end == gaps[k][2]
             crop == [ok |-> TRUE, width |-> image_width, height |-> gap_end - gap_start]
         IN  IF gap_end - gap_start < MIN_GAP_HEIGHT \/ gap_end - gap_start < 80
             THEN RecoverGaps(gaps, k + 1, image_width, openai_api_key, gap_answers)
             ELSE TheOne({<<[region |-> <<gap_start, gap_end>>,
                             recovered |->
                               [e \in 1..Len(extra) |->
                                  [box |-> <<extra[e].box[1], extra[e].box[2] + gap_start,
                                             extra[e].box[3], extra[e].box[4] + gap_start>>,
                                   text |-> extra[e].text,
                                   analysis |-> extra[e].analysis]]]>> :
                          extra \in {detect_and_read_all_bubbles(openai_api_key, crop,
                                        IF k <= Len(gap_answers)
                                        THEN gap_answers[k] ELSE <<>>)}})
                  \o RecoverGaps(gaps, k + 1, image_width, openai_api_key, gap_answers)

\* recovered, the bubbles of the scans one after the other
RECURSIVE Recovered(_)
Recovered(scans) ==
    IF scans = <<>> THEN <<>> ELSE Head(scans).recovered \o Recovered(Tail(scans))

\* the gaps of the page, lines 212-223
PageGaps(page_height, bubbles) == GapsFrom(SortByTop(bubbles), 0, page_height)

\* the scans with every gap of the page handed over, not the first
\* MAX_GAP_REGIONS only, which GapScans is compared with
GapScansUncut(image, page_width, page_height, bubbles, openai_api_key, gap_answers) ==
    IF bubbles = <<>> \/ ~image.ok THEN <<>>
    ELSE RecoverGaps(PageGaps(page_height, bubbles), 1,
                     page_width, openai_api_key, gap_answers)

\* the crops _recover_missing_bubbles hands to the vision service
GapScans(image, page_width, page_height, bubbles, openai_api_key, gap_answers) ==
    IF bubbles = <<>> \/ ~image.ok THEN <<>>
    ELSE TheOne({RecoverGaps(SubSeq(gaps, 1, Min(Len(gaps), MAX_GAP_REGIONS)), 1,
                             page_width, openai_api_key, gap_answers) :
                 gaps \in {PageGaps(page_height, bubbles)}})

_recover_missing_bubbles(image, page_width, page_height, bubbles, openai_api_key, gap_answers) ==
    IF bubbles = <<>> THEN bubbles
    ELSE bubbles \o Recovered(GapScans(image, page_width, page_height, bubbles,
                                       openai_api_key, gap_answers))

-----------------------------------------------------------------------------
(* tasks.py: process_chapter, the work on one page.  What the page meets  *)
(* outside the program is a record env: path_exists, download (the answer *)
(* to the download request), image (what opens at the local path),        *)
(* answers (the vision model, slice by slice), gap_answers (the same for  *)
(* each gap crop) and tts_scripts (for each bubble, the providers'        *)
(* answers call by call).                                                 *)

DEFAULT_PAGE_WIDTH == 1080
DEFAULT_PAGE_HEIGHT == 1920

\* the settings the worker runs with: config.py defaults and an OpenAI key
WorkerSettings ==
    [tts_provider_priority |-> <<"openai">>,
     elevenlabs_api_key |-> "",
     openai_api_key |-> "sk-key"]

_ensure_local_image(file_info, path_exists, download) ==
    IF path_exists THEN [raised |-> FALSE, error |-> ""]
    ELSE IF file_info.image_url = <<>> THEN [raised |-> TRUE, error |-> "FileNotFoundError"]
    ELSE IF download.raises THEN [raised |-> TRUE, error |-> "ConnectionError"]
    ELSE IF IsHttpError(download) THEN [raised |-> TRUE, error |-> "HTTPError"]
    ELSE [raised |-> FALSE, error |-> ""]

\* the female narrator whatever the gender, which NarratorVoice is compared
\* with
NarratorVoiceFemale(narrator_gender) == "voice_narrator_f"

NarratorVoice(narrator_gender) ==
    IF narrator_gender = "male" THEN "voice_narrator_m" ELSE "voice_narrator_f"

\* the assignment with the memory never consulted: every bubble is given
\* the voice of its own analysis, which AssignVoice is compared with
AssignVoiceNoMemo(analysis, processing_mode, narrator_gender, character_voice_memory) ==
    [character_key |-> LowerText(Strip(analysis.character_type, SpaceChars)),
     type |-> _bubble_kind_from_analysis(analysis),
     reuse_allowed |-> FALSE,
     voice |-> [voice_id |-> analysis.voice_suggestion, stability |-> analysis.stability,
                similarity_boost |-> analysis.similarity_boost, style |-> analysis.style],
     speaker_name |-> Title(ReplaceChar(analysis.character_type, "_", <<" ">>)),
     memory |-> character_voice_memory]

\* the voice and settings STEP 3 gives one bubble, and the memory after it
AssignVoice(analysis, processing_mode, narrator_gender, character_voice_memory) ==
    LET bubble_type == _bubble_kind_from_analysis(analysis)
        character_key == LowerText(Strip(analysis.character_type, SpaceChars))
        reuse_allowed == /\ processing_mode # "narrate"
                         /\ character_key # <<>>
                         /\ character_key \notin {S_unknown, S_sfx_autodetect}
                         /\ bubble_type \notin {"sfx", "narration"}
        own == [voice_id |-> analysis.voice_suggestion, stability |-> analysis.stability,
                similarity_boost |-> analysis.similarity_boost, style |-> analysis.style]
    IN  IF processing_mode = "narrate"
        THEN [character_key |-> character_key, type |-> bubble_type,
              reuse_allowed |-> reuse_allowed,
              voice |-> [voice_id |-> NarratorVoice(narrator_gender), stability |-> 70,
                         similarity_boost |-> 85, style |-> 25],
              speaker_name |-> <<"N","a","r","r","a","t","o","r">>,
              memory |-> character_voice_memory]
        ELSE [character_key |-> character_key, type |-> bubble_type,
              reuse_allowed |-> reuse_allowed,
              voice |-> IF reuse_allowed /\ character_key \in DOMAIN character_voice_memory
                        THEN character_voice_memory[character_key]
                        ELSE own,
              speaker_name |-> Title(ReplaceChar(analysis.character_type, "_", <<" ">>)),
              memory |-> IF /\ reuse_allowed
                            /\ character_key \notin DOMAIN character_voice_memory
                            /\ own.voice_id # ""
                         THEN [k \in DOMAIN character_voice_memory \cup {character_key} |->
                                  IF k = character_key THEN own
                                  ELSE character_voice_memory[k]]
                         ELSE character_voice_memory]

\* STEP 3, the loop over unique_bubbles from bubble_idx (0-based) on;
\* acc = [raised, error, items, memory, calls]
RECURSIVE VoiceLoop(_, _, _, _)
VoiceLoop(unique_bubbles, bubble_idx, ctx, acc) ==
    IF bubble_idx >= Len(unique_bubbles) THEN acc
    ELSE TheOne({
        LET b == unique_bubbles[bubble_idx + 1]
            tts_ready_text == _humanize_caps_for_tts(cleaned_text)
            delivery_text == _build_tts_delivery_text(tts_ready_text, b.analysis)
            call == [page_index |-> ctx.index, bubble_idx |-> bubble_idx,
                     character_key |-> a.character_key, type |-> a.type,
                     reuse_allowed |-> a.reuse_allowed, voice |-> a.voice,
                     analysis |-> b.analysis, text |-> b.text]
            item == [bubble_id |-> <<ctx.index, bubble_idx>>,
                     panel_box |-> <<0, 0, ctx.page_width, ctx.page_height>>,
                     bubble_box |-> b.box,
                     type |-> a.type,
                     speaker_id |-> <<ctx.chapter_id, ctx.index, bubble_idx>>,
                     speaker_name |-> a.speaker_name,
                     voice_id |-> a.voice.voice_id,
                     text |-> cleaned_text,
                     audio_url |-> tts_result.audio_url,
                     word_times |-> _approximate_word_times(delivery_text)]
        IN  IF tts_result.stage = "raised"
            THEN [acc EXCEPT !.raised = TRUE, !.error = tts_result.error,
                             !.memory = a.memory, !.calls = Append(acc.calls, call)]
            ELSE VoiceLoop(unique_bubbles, bubble_idx + 1, ctx,
                    [acc EXCEPT !.items = Append(acc.items, item), !.memory = a.memory,
                                !.calls = Append(acc.calls, call)]) :
        cleaned_text \in {_clean_redundant_phrases(unique_bubbles[bubble_idx + 1].text)},
        a \in {AssignVoice(unique_bubbles[bubble_idx + 1].analysis, ctx.processing_mode,
                           ctx.narrator_gender, acc.memory)},
        tts_result \in {synthesize(ctx.settings,
                           IF bubble_idx + 1 <= Len(ctx.tts_scripts)
                           THEN ctx.tts_scripts[bubble_idx + 1] ELSE <<>>)}})

\* items.sort(key=top of bubble_box): stable
RECURSIVE InsertItemByTop(_, _)
InsertItemByTop(sorted, item) ==
    IF sorted = <<>> THEN <<item>>
    ELSE IF Head(sorted).bubble_box[2] <= item.bubble_box[2]
    THEN <<Head(sorted)>> \o InsertItemByTop(Tail(sorted), item)
    ELSE <<item>> \o sorted

\* the items left in the order STEP 3 produced them, which SortItems is
\* compared with
SortItemsKept(items) == items

RECURSIVE SortItems(_)
SortItems(items) ==
    IF items = <<>> THEN <<>>
    ELSE InsertItemByTop(SortItems(SubSeq(items, 1, Len(items) - 1)), items[Len(items)])

\* one turn of the loop over files, up to pages.append(page)
\* (index is 0-based; job carries the arguments of process_chapter)
ProcessPage(job, index, character_voice_memory, env) ==
    LET file_info == job.files[index + 1]
        page_width == IF file_info.width # 0 THEN file_info.width ELSE DEFAULT_PAGE_WIDTH
        page_height == IF file_info.height # 0 THEN file_info.height ELSE DEFAULT_PAGE_HEIGHT
        ctx == [chapter_id |-> job.chapter_id, index |-> index,
                page_width |-> page_width, page_height |-> page_height,
                processing_mode |-> job.processing_mode,
                narrator_gender |-> job.narrator_gender,
                settings |-> WorkerSettings, tts_scripts |-> env.tts_scripts]
    IN  TheOne({
        IF located.raised
        THEN [raised |-> TRUE, error |-> located.error, page |-> <<>>,
              memory |-> character_voice_memory, calls |-> <<>>,
              unique_bubbles |-> <<>>]
        ELSE TheOne({TheOne({
            IF voiced.raised
            THEN [raised |-> TRUE, error |-> voiced.error, page |-> <<>>,
                  memory |-> voiced.memory, calls |-> voiced.calls,
                  unique_bubbles |-> unique_bubbles]
            ELSE TheOne({
                [raised |-> FALSE, error |-> "",
                 page |-> [page_index |-> index,
                           image_url |-> file_info.image_url,
                           width |-> page_width,
                           height |-> page_height,
                           items |-> items,
                           reading_order |-> [k \in 1..Len(items) |-> items[k].bubble_id]],
                 memory |-> voiced.memory, calls |-> voiced.calls,
                 unique_bubbles |-> unique_bubbles] :
                items \in {SortItems(voiced.items)}}) :
            voiced \in {VoiceLoop(unique_bubbles, 0, ctx,
                           [raised |-> FALSE, error |-> "", items |-> <<>>,
                            memory |-> character_voice_memory, calls |-> <<>>])}}) :
          unique_bubbles \in {Deduplicate(CollectCandidates(
              _recover_missing_bubbles(env.image, page_width, page_height,
                  detect_and_read_all_bubbles(WorkerSettings.openai_api_key,
                                              env.image, env.answers),
                  WorkerSettings.openai_api_key, env.gap_answers),
              job.processing_mode))}}) :
        located \in {_ensure_local_image(file_info, env.path_exists, env.download)}})

-----------------------------------------------------------------------------
(* pipeline.py: ChapterStore.  jobs and chapters are the two Redis hashes, *)
(* each a function from the ids stored to the records stored under them.   *)

JobStatusFields == {"job_id", "status", "progress", "chapter_id", "error"}

\* no chapter (chapter_id None) and no error (error None)
NoChapter == 0
NoError == ""

NewJob(job_id) ==
    [job_id |-> job_id, status |-> "queued", progress |-> 0,
     chapter_id |-> NoChapter, error |-> NoError]

\* hset(key, field, value)
HSet(hash, field, value) ==
    [f \in DOMAIN hash \cup {field} |-> IF f = field THEN value ELSE hash[f]]

\* create_job: the jobs hash after it, for the fresh id job_id
create_job(job_hash, job_id) == HSet(job_hash, job_id, NewJob(job_id))

\* update_job as if the job were never found: every update starts from a
\* fresh queued job
update_job_from_fresh(job_hash, job_id, updates) ==
    LET job == NewJob(job_id)
    IN  HSet(job_hash, job_id,
             [f \in JobStatusFields |-> IF f \in DOMAIN updates THEN updates[f] ELSE job[f]])

\* update_job that leaves the hash alone when the job is not found
update_job_known_only(job_hash, job_id, updates) ==
    IF job_id \in DOMAIN job_hash
    THEN HSet(job_hash, job_id,
              [f \in JobStatusFields |->
                  IF f \in DOMAIN updates THEN updates[f] ELSE job_hash[job_id][f]])
    ELSE job_hash

\* update_job: the jobs hash after it; updates is the record of keyword
\* arguments
update_job(job_hash, job_id, updates) ==
    LET job == IF job_id \in DOMAIN job_hash THEN job_hash[job_id] ELSE NewJob(job_id)
    IN  HSet(job_hash, job_id,
             [f \in JobStatusFields |-> IF f \in DOMAIN updates THEN updates[f] ELSE job[f]])

save_chapter(chapter_hash, chapter) == HSet(chapter_hash, chapter.chapter_id, chapter)

-----------------------------------------------------------------------------
(* tasks.py: enqueue_chapter_job, one action per store or queue operation *)

Modes == {"bring_to_life", "narrate"}
NarratorGenders == {"female", "male"}

\* the page files of a submission: each carries its image_url, except
\* perhaps the last
FileUrl(k) == <<"/", "uploads", "/", k>>
FileLists ==
    UNION {{[k \in 1..n |-> [image_url |-> IF k < n \/ last_has_url
                                           THEN FileUrl(k) ELSE <<>>,
                             width |-> 1080, height |-> 1400]] :
               last_has_url \in BOOLEAN} : n \in 0..MaxPages}

\* create_job, line 39
EnqueueCreateJob ==
    /\ api.pc = "idle"
    /\ Cardinality(DOMAIN jobs) < MaxJobs
    /\ \E files \in FileLists, processing_mode \in Modes, narrator_gender \in NarratorGenders :
          LET job_id == Cardinality(DOMAIN jobs) + 1
          IN  \* narrator_gender is read in narrate mode only
              /\ narrator_gender = "male" => processing_mode = "narrate"
              /\ jobs' = create_job(jobs, job_id)
              /\ api' = [pc |-> "created", job_id |-> job_id, chapter_id |-> job_id,
                         files |-> files, processing_mode |-> processing_mode,
                         narrator_gender |-> narrator_gender]
    /\ UNCHANGED <<chapters, queue, wk, runs, tts, dd, spk, gp, sg>>

\* the job set to processing with the progress of its creation, which
\* EnqueueUpdateJob is compared with
EnqueueUpdateJobNoProgress ==
    /\ api.pc = "created"
    /\ jobs' = update_job(jobs, api.job_id,
                          [status |-> "processing", chapter_id |-> api.chapter_id])
    /\ api' = [api EXCEPT !.pc = "updated"]
    /\ UNCHANGED <<chapters, queue, wk, runs, tts, dd, spk, gp, sg>>

\* update_job(status="processing", chapter_id=chapter_id, progress=5)
EnqueueUpdateJob ==
    /\ api.pc = "created"
    /\ jobs' = update_job(jobs, api.job_id,
                          [status |-> "processing", chapter_id |-> api.chapter_id,
                           progress |-> 5])
    /\ api' = [api EXCEPT !.pc = "updated"]
    /\ UNCHANGED <<chapters, queue, wk, runs, tts, dd, spk, gp, sg>>

\* save_chapter(placeholder)
EnqueueSaveChapter ==
    /\ api.pc = "updated"
    /\ chapters' = save_chapter(chapters,
                       [chapter_id |-> api.chapter_id, title |-> <<>>,
                        status |-> "processing", progress |-> 5, pages |-> <<>>])
    /\ api' = [api EXCEPT !.pc = "saved"]
    /\ UNCHANGED <<jobs, queue, wk, runs, tts, dd, spk, gp, sg>>

\* queue.enqueue_call(func=process_chapter, args=...)
EnqueueCall ==
    /\ api.pc = "saved"
    /\ queue' = Append(queue, [chapter_id |-> api.chapter_id, files |-> api.files,
                               job_id |-> api.job_id,
                               processing_mode |-> api.processing_mode,
                               narrator_gender |-> api.narrator_gender])
    /\ api' = [pc |-> "idle"]
    /\ UNCHANGED <<jobs, chapters, wk, runs, tts, dd, spk, gp, sg>>

-----------------------------------------------------------------------------
(* SpecTTS: one synthesize call, turn by turn *)

ProviderNames == {"elevenlabs", "openai", "azure", ""}

TTSSettings ==
    [tts_provider_priority : SeqsUpTo(ProviderNames, MaxChain),
     elevenlabs_api_key : KeyValues,
     openai_api_key : KeyValues]

\* the scripts of one provider call: k rate-limit answers, then a final one
RateLimited(k) == [i \in 1..k |-> HttpAnswer(429)]
ProviderScripts ==
    {RateLimited(k) \o <<a>> : k \in 0..(OPENAI_MAX_ATTEMPTS - 1), a \in Answers \ {HttpAnswer(429)}}
    \cup {RateLimited(OPENAI_MAX_ATTEMPTS)}

TTSIdle == [stage |-> "idle"]

TTSInit == \E settings \in TTSSettings : tts = SynthStart(settings)

TTSSkip ==
    /\ tts.stage = "chain"
    /\ ProviderAt(tts.settings, tts.pos) = "skip"
    /\ tts' = SynthStep(tts, <<>>)

TTSNoProvider ==
    /\ tts.stage = "chain"
    /\ ProviderAt(tts.settings, tts.pos) = "none"
    /\ tts' = SynthStep(tts, <<>>)

TTSElevenLabs ==
    /\ tts.stage = "chain"
    /\ ProviderAt(tts.settings, tts.pos) = "elevenlabs"
    /\ \E a \in Answers : tts' = SynthStep(tts, <<a>>)

TTSOpenAI ==
    /\ tts.stage = "chain"
    /\ ProviderAt(tts.settings, tts.pos) = "openai"
    /\ \E script \in ProviderScripts : tts' = SynthStep(tts, script)

TTSForcedOpenAI ==
    /\ tts.stage = "chain"
    /\ ProviderAt(tts.settings, tts.pos) = "forced_openai"
    /\ \E script \in ProviderScripts : tts' = SynthStep(tts, script)

-----------------------------------------------------------------------------
(* the specifications of the two services taken alone *)

\* no update_speaker request under way; no gap recovery under way; no page
\* being cut
SpeakerIdle == <<>>
GapIdle == [stage |-> "idle"]
SegmentIdle == [stage |-> "idle"]

StoreIdle ==
    /\ jobs = <<>>
    /\ chapters = <<>>
    /\ queue = <<>>
    /\ api = [pc |-> "idle"]
    /\ wk = [pc |-> "idle"]
    /\ runs = <<>>
    /\ spk = SpeakerIdle
    /\ gp = GapIdle
    /\ sg = SegmentIdle

TTSSpecInit == StoreIdle /\ dd = DedupIdle /\ TTSInit

TTSNext ==
    \/ TTSSkip /\ UNCHANGED <<jobs, chapters, queue, api, wk, runs, dd, spk, gp, sg>>
    \/ TTSNoProvider /\ UNCHANGED <<jobs, chapters, queue, api, wk, runs, dd, spk, gp, sg>>
    \/ TTSElevenLabs /\ UNCHANGED <<jobs, chapters, queue, api, wk, runs, dd, spk, gp, sg>>
    \/ TTSOpenAI /\ UNCHANGED <<jobs, chapters, queue, api, wk, runs, dd, spk, gp, sg>>
    \/ TTSForcedOpenAI /\ UNCHANGED <<jobs, chapters, queue, api, wk, runs, dd, spk, gp, sg>>

SpecTTS == TTSSpecInit /\ [][TTSNext]_vars

DedupSpecInit == StoreIdle /\ tts = TTSIdle /\ DedupInit

DedupNext ==
    \/ DedupCollect /\ UNCHANGED <<jobs, chapters, queue, api, wk, runs, tts, spk, gp, sg>>
    \/ DedupPass /\ UNCHANGED <<jobs, chapters, queue, api, wk, runs, tts, spk, gp, sg>>
    \/ DedupAgain /\ UNCHANGED <<jobs, chapters, queue, api, wk, runs, tts, spk, gp, sg>>

SpecDedup == DedupSpecInit /\ [][DedupNext]_vars

-----------------------------------------------------------------------------
(* tasks.py: process_chapter run by the queue worker, one action per      *)
(* store operation.  runs records, for each job, how its run stands       *)
(* ("running", "returned", "raised"), the exception raised, the files the *)
(* run was given and the job's progress when the run started or raised.   *)

\* a progress that falls as the pages go by, which PageProgress is compared with
PageProgressFalling(index, total_files) == 90 - (((index + 1) * 80) \div total_files)

\* the fraction rounded up, which PageProgress is compared with
PageProgressCeil(index, total_files) ==
    10 + ((((index + 1) * 80) + total_files - 1) \div total_files)

\* 10 + int(((index + 1) / total_files) * 80)
PageProgress(index, total_files) == 10 + (((index + 1) * 80) \div total_files)

WorkerIdle == [pc |-> "idle"]

\* what one page of a chapter can meet
EntryHero ==
    [text |-> <<"H","e","l","l","o"," ","t","h","e","r","e">>,
     speaker_gender |-> S_male, speaker_age |-> S_adult, emotion |-> S_angry,
     tone |-> <<>>, bubble_type |-> <<>>]

PipelineAnswers ==
    {<<[raises |-> TRUE, entries |-> <<>>]>>,
     <<[raises |-> FALSE, entries |-> <<EntryHero>>]>>}

\* the provider answers for a bubble: a success, or a failure of the chain
\* call and of the forced call
PipelineTtsScripts ==
    {<<<<HttpAnswer(200)>>>>, <<<<HttpAnswer(500)>>, <<HttpAnswer(500)>>>>}

\* the file is at its local path (an image that opens, or not); or it is
\* not and the download brings it; or it is not and the download fails
PipelineEnvs(file_info) ==
    LET image(ok) == [ok |-> ok, width |-> file_info.width, height |-> file_info.height]
    IN  [path_exists : {TRUE},
         download : {HttpAnswer(200)},
         image : {image(TRUE), image(FALSE)},
         answers : PipelineAnswers,
         gap_answers : {<<>>},
         tts_scripts : {<<s>> : s \in PipelineTtsScripts}]
        \cup
        [path_exists : {FALSE},
         download : {HttpAnswer(200)},
         image : {image(TRUE)},
         answers : PipelineAnswers,
         gap_answers : {<<>>},
         tts_scripts : {<<s>> : s \in PipelineTtsScripts}]
        \cup
        [path_exists : {FALSE},
         download : {HttpAnswer(404), NetErr},
         image : {image(TRUE)},
         answers : {<<[raises |-> FALSE, entries |-> <<EntryHero>>]>>},
         gap_answers : {<<>>},
         tts_scripts : {<<<<<<HttpAnswer(200)>>>>>>}]

\* the worker takes the call at the head of the queue; "if not files: return"
WorkerStart ==
    /\ wk.pc = "idle"
    /\ queue # <<>>
    /\ LET job == Head(queue)
       IN  IF job.files = <<>>
           THEN /\ wk' = WorkerIdle
                /\ runs' = HSet(runs, job.job_id,
                                [outcome |-> "returned", error |-> "", files |-> job.files,
                                 progress |-> jobs[job.job_id].progress])
           ELSE /\ wk' = [pc |-> "page", job |-> job, index |-> 0, pages |-> <<>>,
                          memory |-> <<>>, calls |-> <<>>]
                /\ runs' = HSet(runs, job.job_id,
                                [outcome |-> "running", error |-> "", files |-> job.files,
                                 progress |-> jobs[job.job_id].progress])
    /\ queue' = Tail(queue)
    /\ UNCHANGED <<jobs, chapters, api, tts, dd, spk, gp, sg>>

\* one turn of the loop over files: the page is built and appended and the
\* job's progress updated, or an exception leaves process_chapter
WorkerPageWith(Envs(_)) ==
    /\ wk.pc = "page"
    /\ \E env \in Envs(wk.job.files[wk.index + 1]) :
        \E r \in {ProcessPage(wk.job, wk.index, wk.memory, env)} :
          LET total_files == Len(wk.job.files)
          IN  IF r.raised
              THEN /\ wk' = WorkerIdle
                   /\ runs' = [runs EXCEPT ![wk.job.job_id].outcome = "raised",
                                           ![wk.job.job_id].error = r.error,
                                           ![wk.job.job_id].progress =
                                               jobs[wk.job.job_id].progress]
                   /\ UNCHANGED jobs
              ELSE /\ jobs' = update_job(jobs, wk.job.job_id,
                                         [progress |-> PageProgress(wk.index, total_files)])
                   /\ wk' = [wk EXCEPT !.pages = Append(wk.pages, r.page),
                                       !.memory = r.memory,
                                       !.calls = wk.calls \o r.calls,
                                       !.index = wk.index + 1,
                                       !.pc = IF wk.index + 1 = total_files
                                              THEN "save" ELSE "page"]
                   /\ UNCHANGED runs
    /\ UNCHANGED <<chapters, queue, api, tts, dd, spk, gp, sg>>

WorkerPage == WorkerPageWith(PipelineEnvs)

\* the ready chapter saved with the pages of a loop still under way
WorkerSaveChapterEarly ==
    /\ wk.pc \in {"page", "save"}
    /\ chapters' = save_chapter(chapters,
                       [chapter_id |-> wk.job.chapter_id,
                        title |-> <<"Chapter", wk.job.chapter_id>>,
                        status |-> "ready", progress |-> 100, pages |-> wk.pages])
    /\ wk' = [wk EXCEPT !.pc = "finish"]
    /\ UNCHANGED <<jobs, queue, api, runs, tts, dd, spk, gp, sg>>

\* the job marked ready where the chapter is to be saved, which
\* WorkerSaveChapter is compared with
WorkerReadyBeforeSave ==
    /\ wk.pc = "save"
    /\ jobs' = update_job(jobs, wk.job.job_id, [status |-> "ready", progress |-> 100])
    /\ wk' = [wk EXCEPT !.pc = "finish"]
    /\ UNCHANGED <<chapters, queue, api, runs, tts, dd, spk, gp, sg>>

\* save_chapter(chapter) after the loop, lines 557-565
WorkerSaveChapter ==
    /\ wk.pc = "save"
    /\ chapters' = save_chapter(chapters,
                       [chapter_id |-> wk.job.chapter_id,
                        title |-> <<"Chapter", wk.job.chapter_id>>,
                        status |-> "ready", progress |-> 100, pages |-> wk.pages])
    /\ wk' = [wk EXCEPT !.pc = "finish"]
    /\ UNCHANGED <<jobs, queue, api, runs, tts, dd, spk, gp, sg>>

\* the job failed when a page of the chapter has no items, which
\* WorkerFinish is compared with
WorkerFinishStrict ==
    /\ wk.pc = "finish"
    /\ jobs' = update_job(jobs, wk.job.job_id,
                          IF \E k \in 1..Len(wk.pages) : wk.pages[k].items = <<>>
                          THEN [status |-> "failed"]
                          ELSE [status |-> "ready", progress |-> 100])
    /\ runs' = [runs EXCEPT ![wk.job.job_id].outcome = "returned"]
    /\ wk' = WorkerIdle
    /\ UNCHANGED <<chapters, queue, api, tts, dd, spk, gp, sg>>

\* update_job(status="ready", progress=100), then process_chapter returns
WorkerFinish ==
    /\ wk.pc = "finish"
    /\ jobs' = update_job(jobs, wk.job.job_id, [status |-> "ready", progress |-> 100])
    /\ runs' = [runs EXCEPT ![wk.job.job_id].outcome = "returned"]
    /\ wk' = WorkerIdle
    /\ UNCHANGED <<chapters, queue, api, tts, dd, spk, gp, sg>>

Init ==
    /\ StoreIdle
    /\ tts = TTSIdle
    /\ dd = DedupIdle

Next ==
    \/ EnqueueCreateJob
    \/ EnqueueUpdateJob
    \/ EnqueueSaveChapter
    \/ EnqueueCall
    \/ WorkerStart
    \/ WorkerPage
    \/ WorkerSaveChapter
    \/ WorkerFinish

Spec == Init /\ [][Next]_vars

-----------------------------------------------------------------------------
(* SpecVoice: the worker on one submitted chapter whose pages carry        *)
(* bubbles of several speakers, every TTS call answered                    *)

VoiceEntry(text, gender, age, emotion, bubble_type) ==
    [text |-> text, speaker_gender |-> gender, speaker_age |-> age,
     emotion |-> emotion, tone |-> <<>>, bubble_type |-> bubble_type]

\* two lines of one adult man in different moods, a young woman, a caption
VoiceEntries ==
    <<VoiceEntry(<<"H","e","l","l","o"," ","t","h","e","r","e">>, S_male, S_adult, S_angry, <<>>),
      VoiceEntry(<<"G","o"," ","a","w","a","y"," ","n","o","w">>, S_male, S_adult, S_calm, <<>>),
      VoiceEntry(<<"W","h","o"," ","i","s"," ","i","t">>, S_female, S_young, S_happy, <<>>),
      VoiceEntry(<<"L","a","t","e","r"," ","o","n">>, <<>>, <<>>, S_sad, S_narration)>>

\* the entries of list at the indices in S, in the order of the list
Pick(list, S) ==
    [k \in 1..Cardinality(S) |->
        list[CHOOSE i \in S : Cardinality({j \in S : j < i}) = k - 1]]

\* what the vision model answers for a page: some of the entries
VoiceAnswers ==
    {<<[raises |-> FALSE, entries |-> Pick(VoiceEntries, S)]>> :
        S \in {T \in SUBSET (1..Len(VoiceEntries)) :
                  T # {} /\ Cardinality(T) <= MaxVoiceBubbles}}

VoiceEnvs(file_info) ==
    [path_exists : {TRUE},
     download : {HttpAnswer(200)},
     image : {[ok |-> TRUE, width |-> file_info.width, height |-> file_info.height]},
     answers : VoiceAnswers,
     gap_answers : {<<>>},
     tts_scripts : {<<>>}]

\* the store and the queue once enqueue_chapter_job has returned for the
\* first chapter
VoiceInit ==
    /\ \E n \in 1..MaxVoicePages, processing_mode \in Modes :
          LET files == [k \in 1..n |-> [image_url |-> FileUrl(k),
                                        width |-> 1080, height |-> 1400]]
          IN  /\ jobs = update_job(create_job(<<>>, 1), 1,
                                   [status |-> "processing", chapter_id |-> 1,
                                    progress |-> 5])
              /\ chapters = save_chapter(<<>>,
                                [chapter_id |-> 1, title |-> <<>>,
                                 status |-> "processing", progress |-> 5, pages |-> <<>>])
              /\ queue = <<[chapter_id |-> 1, files |-> files, job_id |-> 1,
                            processing_mode |-> processing_mode,
                            narrator_gender |-> "female"]>>
    /\ api = [pc |-> "idle"]
    /\ wk = WorkerIdle
    /\ runs = <<>>
    /\ tts = TTSIdle
    /\ dd = DedupIdle
    /\ spk = SpeakerIdle
    /\ gp = GapIdle
    /\ sg = SegmentIdle

WorkerPageVoice == WorkerPageWith(VoiceEnvs)

VoiceNext ==
    \/ WorkerStart
    \/ WorkerPageVoice
    \/ WorkerSaveChapter
    \/ WorkerFinish

SpecVoice == VoiceInit /\ [][VoiceNext]_vars

-----------------------------------------------------------------------------
(* SpecNarrate: the worker on one chapter submitted in narrate mode, with  *)
(* each narrator_gender the route can pass on                              *)

\* a shout and a sound written in capitals by an adult man, a line of his,
\* a line of a young woman, a caption
NarrateEntries ==
    <<VoiceEntry(<<"N","O"," ","W","A","Y">>, S_male, S_adult, S_angry, <<>>),
      VoiceEntry(<<"B","O","O","M">>, S_male, S_adult, S_excited, <<>>),
      VoiceEntries[1],
      VoiceEntries[3],
      VoiceEntries[4]>>

\* narrator_gender as the route passes it on: any form value, stripped and
\* lowered
NarrateGenders == {"female", "male", "other"}

NarrateAnswers ==
    {<<[raises |-> FALSE, entries |-> Pick(NarrateEntries, S)]>> :
        S \in {T \in SUBSET (1..Len(NarrateEntries)) :
                  T # {} /\ Cardinality(T) <= MaxVoiceBubbles}}

NarrateEnvs(file_info) ==
    [path_exists : {TRUE},
     download : {HttpAnswer(200)},
     image : {[ok |-> TRUE, width |-> file_info.width, height |-> file_info.height]},
     answers : NarrateAnswers,
     gap_answers : {<<>>},
     tts_scripts : {<<>>}]

\* the store and the queue once enqueue_chapter_job has returned for the
\* chapter
NarrateInit ==
    /\ \E n \in 1..MaxVoicePages, narrator_gender \in NarrateGenders :
          LET files == [k \in 1..n |-> [image_url |-> FileUrl(k),
                                        width |-> 1080, height |-> 1400]]
          IN  /\ jobs = update_job(create_job(<<>>, 1), 1,
                                   [status |-> "processing", chapter_id |-> 1,
                                    progress |-> 5])
              /\ chapters = save_chapter(<<>>,
                                [chapter_id |-> 1, title |-> <<>>,
                                 status |-> "processing", progress |-> 5, pages |-> <<>>])
              /\ queue = <<[chapter_id |-> 1, files |-> files, job_id |-> 1,
                            processing_mode |-> "narrate",
                            narrator_gender |-> narrator_gender]>>
    /\ api = [pc |-> "idle"]
    /\ wk = WorkerIdle
    /\ runs = <<>>
    /\ tts = TTSIdle
    /\ dd = DedupIdle
    /\ spk = SpeakerIdle
    /\ gp = GapIdle
    /\ sg = SegmentIdle

WorkerPageNarrate == WorkerPageWith(NarrateEnvs)

NarrateNext ==
    \/ WorkerStart
    \/ WorkerPageNarrate
    \/ WorkerSaveChapter
    \/ WorkerFinish

SpecNarrate == NarrateInit /\ [][NarrateNext]_vars

-----------------------------------------------------------------------------
(* pipeline.py: ChapterStore.update_speaker, called by the PATCH route of  *)
(* speakers.py.  A field of the patch is a record [given, value], given    *)
(* being FALSE for None.  The chapters are read when the scan starts       *)
(* (hscan_iter yields the payloads of the batch it fetched); each is then  *)
(* patched and, if a bubble matched, written back with hset.               *)

Given(value) == [given |-> TRUE, value |-> value]
NotGiven == [given |-> FALSE]

\* a matching bubble given the new voice_id with the audio it had, which
\* PatchBubble is compared with
PatchBubbleOldAudio(bubble, patch, tts_result) ==
    LET named == IF patch.display_name.given
                 THEN [bubble EXCEPT !.speaker_name = patch.display_name.value]
                 ELSE bubble
    IN  IF patch.voice_id.given
        THEN [named EXCEPT !.voice_id = patch.voice_id.value]
        ELSE named

\* lines 64-74 for one bubble that matches
PatchBubble(bubble, patch, tts_result) ==
    LET named == IF patch.display_name.given
                 THEN [bubble EXCEPT !.speaker_name = patch.display_name.value]
                 ELSE bubble
    IN  IF patch.voice_id.given
        THEN [named EXCEPT !.voice_id = patch.voice_id.value,
                           !.audio_url = tts_result.audio_url,
                           !.word_times = _approximate_word_times(bubble.text)]
        ELSE named

\* lines 60-75 for one chapter: [raised, updated, chapter]; tts_script
\* answers the synthesize calls of the request
PatchChapter(chapter, speaker_id, patch, tts_script) ==
    LET matches == \E p \in 1..Len(chapter.pages) :
                      \E i \in 1..Len(chapter.pages[p].items) :
                         chapter.pages[p].items[i].speaker_id = speaker_id
    IN  TheOne({
        IF matches /\ patch.voice_id.given /\ tts_result.stage = "raised"
        THEN [raised |-> TRUE, updated |-> FALSE, chapter |-> chapter]
        ELSE [raised |-> FALSE,
              updated |-> matches /\ (patch.display_name.given \/ patch.voice_id.given),
              chapter |-> [chapter EXCEPT !.pages =
                  [p \in 1..Len(chapter.pages) |->
                      [chapter.pages[p] EXCEPT !.items =
                          [i \in 1..Len(chapter.pages[p].items) |->
                              IF chapter.pages[p].items[i].speaker_id = speaker_id
                              THEN PatchBubble(chapter.pages[p].items[i], patch, tts_result)
                              ELSE chapter.pages[p].items[i]]]]]] :
        tts_result \in {synthesize(WorkerSettings, tts_script)}})

\* two requests, each served by its own API process
Handlers == {"a", "b"}

HandlerIdle == [pc |-> "idle"]

\* the speakers of the first two bubbles of the first page of chapter 1
SpeakerIds == {<<1, 0, 0>>, <<1, 0, 1>>}

S_Rin == <<"R","i","n">>

SpeakerPatches ==
    {[display_name |-> Given(S_Rin), voice_id |-> NotGiven],
     [display_name |-> NotGiven, voice_id |-> Given("voice_adult_f")],
     [display_name |-> Given(S_Rin), voice_id |-> Given("voice_adult_f")]}

SpeakerTtsScripts == {<<>>, <<<<HttpAnswer(500)>>, <<HttpAnswer(500)>>>>}

\* the request arrives and the scan reads the chapters hash
SpeakerScan(h) ==
    /\ spk[h].pc = "idle"
    /\ \E speaker_id \in SpeakerIds, patch \in SpeakerPatches,
          tts_script \in SpeakerTtsScripts :
          spk' = [spk EXCEPT ![h] =
                     [pc |-> IF DOMAIN chapters = {} THEN "done" ELSE "loop",
                      speaker_id |-> speaker_id, patch |-> patch,
                      tts_script |-> tts_script,
                      snapshot |-> chapters, todo |-> DOMAIN chapters,
                      outcome |-> IF DOMAIN chapters = {} THEN "returned" ELSE "running",
                      written |-> {}]]
    /\ UNCHANGED <<jobs, chapters, queue, api, wk, runs, tts, dd, gp, sg>>

\* one turn of the loop over the chapters read: the chapter is patched and
\* written back if a bubble matched, or synthesize raises; after the last
\* turn update_speaker returns
SpeakerChapter(h) ==
    /\ spk[h].pc = "loop"
    /\ \E chapter_id \in spk[h].todo :
        \E r \in {PatchChapter(spk[h].snapshot[chapter_id], spk[h].speaker_id,
                               spk[h].patch, spk[h].tts_script)} :
          IF r.raised
          THEN /\ spk' = [spk EXCEPT ![h].pc = "done", ![h].outcome = "raised",
                                     ![h].snapshot = <<>>, ![h].todo = {}]
               /\ UNCHANGED chapters
          ELSE /\ chapters' = IF r.updated THEN HSet(chapters, chapter_id, r.chapter)
                              ELSE chapters
               /\ spk' = IF spk[h].todo = {chapter_id}
                         THEN [spk EXCEPT ![h].pc = "done", ![h].outcome = "returned",
                                          ![h].snapshot = <<>>, ![h].todo = {},
                                          ![h].written = IF r.updated
                                                         THEN @ \cup {chapter_id} ELSE @]
                         ELSE [spk EXCEPT ![h].todo = @ \ {chapter_id},
                                          ![h].written = IF r.updated
                                                         THEN @ \cup {chapter_id} ELSE @]
    /\ UNCHANGED <<jobs, queue, api, wk, runs, tts, dd, gp, sg>>

-----------------------------------------------------------------------------
(* SpecSpeaker: the worker on one submitted chapter of one tall page (two  *)
(* slices, gaps to recover), and two update_speaker requests               *)

\* what the vision model answers for the two slices of the page and for
\* the crop of its first gap
SpeakerAnswers ==
    {<<[raises |-> FALSE, entries |-> first], [raises |-> FALSE, entries |-> second]>> :
        first \in {<<>>, <<VoiceEntries[1]>>},
        second \in {<<>>, <<VoiceEntries[3]>>}}

SpeakerGapAnswers ==
    {<<>>, <<<<[raises |-> FALSE, entries |-> <<VoiceEntries[2]>>]>>>>}

SpeakerEnvs(file_info) ==
    [path_exists : {TRUE},
     download : {HttpAnswer(200)},
     image : {[ok |-> TRUE, width |-> file_info.width, height |-> file_info.height]},
     answers : SpeakerAnswers,
     gap_answers : SpeakerGapAnswers,
     tts_scripts : {<<>>}]

\* the store and the queue once enqueue_chapter_job has returned for the
\* chapter; no request yet
SpeakerInit ==
    /\ jobs = update_job(create_job(<<>>, 1), 1,
                         [status |-> "processing", chapter_id |-> 1, progress |-> 5])
    /\ chapters = save_chapter(<<>>,
                      [chapter_id |-> 1, title |-> <<>>,
                       status |-> "processing", progress |-> 5, pages |-> <<>>])
    /\ queue = <<[chapter_id |-> 1,
                  files |-> <<[image_url |-> FileUrl(1), width |-> 1080, height |-> 1700]>>,
                  job_id |-> 1,
                  processing_mode |-> "bring_to_life",
                  narrator_gender |-> "female"]>>
    /\ api = [pc |-> "idle"]
    /\ wk = WorkerIdle
    /\ runs = <<>>
    /\ tts = TTSIdle
    /\ dd = DedupIdle
    /\ spk = [h \in Handlers |-> HandlerIdle]
    /\ gp = GapIdle
    /\ sg = SegmentIdle

WorkerPageSpeaker == WorkerPageWith(SpeakerEnvs)

SpeakerNext ==
    \/ WorkerStart
    \/ WorkerPageSpeaker
    \/ WorkerSaveChapter
    \/ WorkerFinish
    \/ \E h \in Handlers : SpeakerScan(h)
    \/ \E h \in Handlers : SpeakerChapter(h)

SpecSpeaker == SpeakerInit /\ [][SpeakerNext]_vars

-----------------------------------------------------------------------------
(* SpecGaps: the vision pass and the gap recovery on one long page, the    *)
(* vision model finding a bubble or nothing in each slice                  *)

\* a page of MaxGapSlices slices (a slice starts every
\* MAX_SLICE_HEIGHT - overlap pixels)
GapPage ==
    [ok |-> TRUE, width |-> 1080,
     height |-> (MAX_SLICE_HEIGHT \div 2) * (MaxGapSlices + 1)]

GapSliceAnswers ==
    {[raises |-> FALSE, entries |-> <<>>], [raises |-> FALSE, entries |-> <<EntryHero>>]}

\* nothing found in the gaps, or one bubble in each
GapAnswers ==
    {<<>>, [k \in 1..(MAX_GAP_REGIONS + 1) |->
               <<[raises |-> FALSE, entries |-> <<VoiceEntries[2]>>]>>]}

\* the height the file of the page declares: that of the image, or the
\* height of a page of one slice
GapPageHeights == {GapPage.height, 1400}

\* the call of the vision model raising
GapSliceFails == [raises |-> TRUE, entries |-> <<>>]

\* the vision model raising on one slice (fails_at, 0 for none), a bubble
\* found in the first slice, in the first and a middle one, or in every
\* slice
GapFailingAnswers ==
    {[k \in 1..MaxGapSlices |->
         IF k = fails_at THEN GapSliceFails
         ELSE IF k \in found THEN [raises |-> FALSE, entries |-> <<EntryHero>>]
         ELSE [raises |-> FALSE, entries |-> <<>>]] :
     fails_at \in 0..MaxGapSlices,
     found \in {{1}, {1, MaxGapSlices \div 2}, 1..MaxGapSlices}}

\* the vision model raising on the crop of the first gap, a bubble found in
\* each other gap
GapAnswersFirstFails ==
    [k \in 1..(MAX_GAP_REGIONS + 1) |->
        IF k = 1 THEN <<GapSliceFails>>
        ELSE <<[raises |-> FALSE, entries |-> <<VoiceEntries[2]>>]>>]

GapInit ==
    \/ \E answers \in [1..MaxGapSlices -> GapSliceAnswers], gap_answers \in GapAnswers,
          page_height \in GapPageHeights :
           gp = [stage |-> "page", answers |-> answers, gap_answers |-> gap_answers,
                 page_height |-> page_height]
    \/ \E answers \in GapFailingAnswers,
          gap_answers \in GapAnswers \cup {GapAnswersFirstFails},
          page_height \in GapPageHeights :
           gp = [stage |-> "page", answers |-> answers, gap_answers |-> gap_answers,
                 page_height |-> page_height]

\* vision_service.detect_and_read_all_bubbles(image_path), line 371
GapDetect ==
    /\ gp.stage = "page"
    /\ gp' = [stage |-> "bubbles", answers |-> gp.answers, gap_answers |-> gp.gap_answers,
              page_height |-> gp.page_height,
              bubbles |-> detect_and_read_all_bubbles(WorkerSettings.openai_api_key,
                                                      GapPage, gp.answers)]
    /\ UNCHANGED <<jobs, chapters, queue, api, wk, runs, tts, dd, spk, sg>>

\* _recover_missing_bubbles(image_path, page_width, page_height, vision_bubbles),
\* lines 391-396
GapRecover ==
    /\ gp.stage = "bubbles"
    /\ gp' = [stage |-> "recovered", answers |-> gp.answers,
              gap_answers |-> gp.gap_answers, bubbles |-> gp.bubbles,
              page_height |-> gp.page_height,
              gaps |-> PageGaps(gp.page_height, gp.bubbles),
              scans |-> GapScans(GapPage, GapPage.width, gp.page_height, gp.bubbles,
                                 WorkerSettings.openai_api_key, gp.gap_answers),
              vision_bubbles |->
                  _recover_missing_bubbles(GapPage, GapPage.width, gp.page_height,
                                           gp.bubbles, WorkerSettings.openai_api_key,
                                           gp.gap_answers)]
    /\ UNCHANGED <<jobs, chapters, queue, api, wk, runs, tts, dd, spk, sg>>

GapSpecInit ==
    /\ jobs = <<>>
    /\ chapters = <<>>
    /\ queue = <<>>
    /\ api = [pc |-> "idle"]
    /\ wk = WorkerIdle
    /\ runs = <<>>
    /\ tts = TTSIdle
    /\ dd = DedupIdle
    /\ spk = SpeakerIdle
    /\ sg = SegmentIdle
    /\ GapInit

GapNext == GapDetect \/ GapRecover

SpecGaps == GapSpecInit /\ [][GapNext]_vars

-----------------------------------------------------------------------------
(* SpecLong: the worker on one submitted chapter of up to MaxLongPages     *)
(* pages; on each page the text extraction fails, finds nothing that is    *)
(* kept, or finds one bubble; every other step succeeds                    *)

\* the vision call raises (an error answer, a timeout of the request); the
\* model answers nothing; it answers a text STEP 1 filters out; it answers
\* one bubble
LongAnswers ==
    {<<[raises |-> TRUE, entries |-> <<>>]>>,
     <<[raises |-> FALSE, entries |-> <<>>]>>,
     <<[raises |-> FALSE, entries |-> <<PlainEntry(T_json)>>]>>,
     <<[raises |-> FALSE, entries |-> <<EntryHero>>]>>}

\* the image opens and the model answers; or the image does not open
LongEnvs(file_info) ==
    [path_exists : {TRUE},
     download : {HttpAnswer(200)},
     image : {[ok |-> TRUE, width |-> file_info.width, height |-> file_info.height]},
     answers : LongAnswers,
     gap_answers : {<<>>},
     tts_scripts : {<<>>}]
    \cup
    [path_exists : {TRUE},
     download : {HttpAnswer(200)},
     image : {[ok |-> FALSE, width |-> file_info.width, height |-> file_info.height]},
     answers : {<<>>},
     gap_answers : {<<>>},
     tts_scripts : {<<>>}]

\* the store and the queue once enqueue_chapter_job has returned for the
\* chapter
LongInit ==
    /\ \E n \in 1..MaxLongPages, processing_mode \in Modes :
          LET files == [k \in 1..n |-> [image_url |-> FileUrl(k),
                                        width |-> 1080, height |-> 1400]]
          IN  /\ jobs = update_job(create_job(<<>>, 1), 1,
                                   [status |-> "processing", chapter_id |-> 1,
                                    progress |-> 5])
              /\ chapters = save_chapter(<<>>,
                                [chapter_id |-> 1, title |-> <<>>,
                                 status |-> "processing", progress |-> 5, pages |-> <<>>])
              /\ queue = <<[chapter_id |-> 1, files |-> files, job_id |-> 1,
                            processing_mode |-> processing_mode,
                            narrator_gender |-> "female"]>>
    /\ api = [pc |-> "idle"]
    /\ wk = WorkerIdle
    /\ runs = <<>>
    /\ tts = TTSIdle
    /\ dd = DedupIdle
    /\ spk = SpeakerIdle
    /\ gp = GapIdle
    /\ sg = SegmentIdle

WorkerPageLong == WorkerPageWith(LongEnvs)

LongNext ==
    \/ WorkerStart
    \/ WorkerPageLong
    \/ WorkerSaveChapter
    \/ WorkerFinish

SpecLong == LongInit /\ [][LongNext]_vars

-----------------------------------------------------------------------------
(* SpecSegment: _segment_vertical_ranges called on one page height, with   *)
(* its default max_height and overlap or with values given                 *)

\* heights at the multiples of 250 rows, one below and one above
SegmentHeights ==
    {k * 250 + d : k \in 0..MaxSegmentUnits, d \in {-1, 0, 1}} \ {-1}

\* (max_height, overlap) given by a caller; <<>> when the defaults apply
SegmentGiven ==
    {<<>>} \cup ({600, 1000, 1500, 2000} \X {0, 200, 500, 1000})

SegmentInit ==
    \E height \in SegmentHeights, given \in SegmentGiven :
        sg = [stage |-> "input", height |-> height, given |-> given]

\* the call of detect_and_read_all_bubbles, line 86
SegmentDefaults ==
    /\ sg.stage = "input"
    /\ sg.given = <<>>
    /\ sg' = [stage |-> "ranges", height |-> sg.height, given |-> sg.given,
              max_height |-> MAX_SLICE_HEIGHT, overlap |-> SLICE_OVERLAP,
              ranges |-> _segment_vertical_ranges(sg.height)]
    /\ UNCHANGED <<jobs, chapters, queue, api, wk, runs, tts, dd, spk, gp>>

SegmentWith ==
    /\ sg.stage = "input"
    /\ sg.given # <<>>
    /\ sg' = [stage |-> "ranges", height |-> sg.height, given |-> sg.given,
              max_height |-> sg.given[1], overlap |-> sg.given[2],
              ranges |-> SegmentVerticalRanges(sg.height, sg.given[1], sg.given[2])]
    /\ UNCHANGED <<jobs, chapters, queue, api, wk, runs, tts, dd, spk, gp>>

SegmentSpecInit ==
    /\ jobs = <<>>
    /\ chapters = <<>>
    /\ queue = <<>>
    /\ api = [pc |-> "idle"]
    /\ wk = [pc |-> "idle"]
    /\ runs = <<>>
    /\ tts = TTSIdle
    /\ dd = DedupIdle
    /\ spk = SpeakerIdle
    /\ gp = GapIdle
    /\ SegmentInit

SegmentNext == SegmentDefaults \/ SegmentWith

SpecSegment == SegmentSpecInit /\ [][SegmentNext]_vars

-----------------------------------------------------------------------------
(* SpecBoxes: the worker on one chapter of one page, of several sizes, for *)
(* which the vision model returns one entry or several                     *)

\* entries of different texts
BoxEntries ==
    <<VoiceEntries[1], VoiceEntries[2], VoiceEntries[3], VoiceEntries[4],
      NarrateEntries[1], NarrateEntries[2]>>

\* (width, height) of the page image
BoxPageSizes == {800, 1080} \X {400, 700, 1400}

\* the vision model returns the first count entries
BoxAnswers ==
    {<<[raises |-> FALSE, entries |-> SubSeq(BoxEntries, 1, count)]>> :
        count \in 1..Min(MaxBoxEntries, Len(BoxEntries))}

BoxEnvs(file_info) ==
    [path_exists : {TRUE},
     download : {HttpAnswer(200)},
     image : {[ok |-> TRUE, width |-> file_info.width, height |-> file_info.height]},
     answers : BoxAnswers,
     gap_answers : {<<>>},
     tts_scripts : {<<>>}]

\* the store and the queue once enqueue_chapter_job has returned for the
\* chapter
BoxInit ==
    /\ \E size \in BoxPageSizes, processing_mode \in Modes :
          /\ jobs = update_job(create_job(<<>>, 1), 1,
                               [status |-> "processing", chapter_id |-> 1,
                                progress |-> 5])
          /\ chapters = save_chapter(<<>>,
                            [chapter_id |-> 1, title |-> <<>>,
                             status |-> "processing", progress |-> 5, pages |-> <<>>])
          /\ queue = <<[chapter_id |-> 1,
                        files |-> <<[image_url |-> FileUrl(1),
                                     width |-> size[1], height |-> size[2]]>>,
                        job_id |-> 1,
                        processing_mode |-> processing_mode,
                        narrator_gender |-> "female"]>>
    /\ api = [pc |-> "idle"]
    /\ wk = WorkerIdle
    /\ runs = <<>>
    /\ tts = TTSIdle
    /\ dd = DedupIdle
    /\ spk = SpeakerIdle
    /\ gp = GapIdle
    /\ sg = SegmentIdle

WorkerPageBoxes == WorkerPageWith(BoxEnvs)

BoxNext ==
    \/ WorkerStart
    \/ WorkerPageBoxes
    \/ WorkerSaveChapter
    \/ WorkerFinish

SpecBoxes == BoxInit /\ [][BoxNext]_vars

-----------------------------------------------------------------------------
(* SpecStore: the job methods of ChapterStore called one after another,    *)
(* with ids the store knows and ids it does not.  api records the last     *)
(* call: its arguments, the hash before it and whether it raised.          *)

\* the keyword arguments the callers of update_job pass
StoreUpdates ==
    {[status |-> "processing", chapter_id |-> 1, progress |-> 5],
     [progress |-> 50],
     [status |-> "ready", progress |-> 100]}

StoreSpecInit == StoreIdle /\ tts = TTSIdle /\ dd = DedupIdle

\* create_job: a fresh id, a queued record
StoreCreateJob ==
    /\ Cardinality(DOMAIN jobs) < MaxStoreJobs
    /\ \E job_id \in 1..MaxStoreJobs :
          /\ job_id \notin DOMAIN jobs
          /\ jobs' = create_job(jobs, job_id)
          /\ api' = [pc |-> "create_job", job_id |-> job_id, before |-> jobs,
                     raised |-> FALSE]
    /\ UNCHANGED <<chapters, queue, wk, runs, tts, dd, spk, gp, sg>>

\* update_job(job_id, **updates): no statement of it raises
StoreUpdateJob ==
    /\ \E job_id \in 1..MaxStoreJobs, updates \in StoreUpdates :
          /\ jobs' = update_job(jobs, job_id, updates)
          /\ api' = [pc |-> "update_job", job_id |-> job_id, updates |-> updates,
                     before |-> jobs, raised |-> FALSE]
    /\ UNCHANGED <<chapters, queue, wk, runs, tts, dd, spk, gp, sg>>

StoreNext ==
    \/ StoreCreateJob
    \/ StoreUpdateJob

SpecStore == StoreSpecInit /\ [][StoreNext]_vars

-----------------------------------------------------------------------------
(* properties of STEP 2, under SpecDedup *)

\* C9: dedup is idempotent: the merge pass applied to its own output
\* returns that output unchanged, nothing merged and nothing dropped.
C9_DedupIdempotent ==
    dd.stage = "again" => dd.again = dd.unique_bubbles

KeyLen(candidates, m) == Len(CandKey(candidates[m]))

\* C10: the groups formed by the pass split the candidates into classes,
\* one bubble is emitted per class, it is a member of the class whose
\* comparison key is of maximal length in the class and it carries that
\* member's text and box; two candidates that match each other yield a
\* single bubble carrying the text and box of the one with the longer key.
C10_LongestOfEachClass ==
    dd.stage = "deduped" =>
        LET candidates == dd.candidates
            groups == dd.groups
            n == Len(candidates)
        IN  /\ \A i \in 1..n : \E k \in 1..Len(groups) : i \in groups[k].members
            /\ \A k, l \in 1..Len(groups) :
                   k # l => groups[k].members \cap groups[l].members = {}
            /\ Len(dd.unique_bubbles) = Len(groups)
            /\ \A k \in 1..Len(groups) :
                   /\ groups[k].best \in groups[k].members
                   /\ \A m \in groups[k].members :
                          KeyLen(candidates, groups[k].best) >= KeyLen(candidates, m)
                   /\ dd.unique_bubbles[k].text = candidates[groups[k].best].text
                   /\ dd.unique_bubbles[k].box = candidates[groups[k].best].box
            /\ (n = 2 /\ SimilarKeys(CandKey(candidates[1]), CandKey(candidates[2]))) =>
                   /\ Len(dd.unique_bubbles) = 1
                   /\ \A m \in 1..2 :
                          KeyLen(candidates, m) > KeyLen(candidates, 3 - m) =>
                              /\ dd.unique_bubbles[1].text = candidates[m].text
                              /\ dd.unique_bubbles[1].box = candidates[m].box

\* two matching candidates, the later one with the longer key, merged into
\* one bubble
C10_Witness ==
    /\ dd.stage = "deduped"
    /\ Len(dd.candidates) = 2
    /\ SimilarKeys(CandKey(dd.candidates[1]), CandKey(dd.candidates[2]))
    /\ KeyLen(dd.candidates, 2) > KeyLen(dd.candidates, 1)
    /\ Len(dd.unique_bubbles) = 1
    /\ dd.unique_bubbles[1].text = dd.candidates[2].text

\* C25: after the dedup pass of a page no two emitted bubbles are
\* equivalent (one a substring of the other with a length ratio above 0.7,
\* or of similarity 0.88 or more), whatever the order of the candidates.
C25_NoEquivalentPairLeft ==
    dd.stage \in {"deduped", "again"} =>
        \A i, j \in 1..Len(dd.unique_bubbles) :
            i # j =>
                ~SimilarKeys(
                    normalize_for_comparison(LowerText(dd.unique_bubbles[i].text)),
                    normalize_for_comparison(LowerText(dd.unique_bubbles[j].text)))

-----------------------------------------------------------------------------
(* properties of synthesize, under SpecTTS *)

TTSDone == tts.stage \in {"returned", "raised"}

TTSChain == ProviderChain(tts.settings.tts_provider_priority)

\* C5: when every provider attempt of a synthesize call has failed, the call
\* returns a degraded result (empty audio_url) if a provider was configured
\* (a request was sent to one), and it raises when no provider is configured
\* at all.
C5_DegradedWhenAllFail ==
    (TTSDone /\ \A k \in 1..Len(tts.log) : ~tts.log[k].ok) =>
        /\ (\E k \in 1..Len(tts.log) : tts.log[k].requests > 0) =>
               (tts.stage = "returned" /\ tts.audio_url = "")
        /\ (~KeyTruthy(tts.settings.elevenlabs_api_key)
              /\ ~KeyTruthy(tts.settings.openai_api_key)) => tts.stage = "raised"

C7_RateLimitRetried ==
    tts.stage # "idle" =>
        \A k \in 1..Len(tts.log) :
            LET e == tts.log[k]
            IN  /\ \A r \in 1..Len(e.answers) :
                       (e.answers[r] = HttpAnswer(429) /\ r < OPENAI_MAX_ATTEMPTS) =>
                           e.requests > r
                /\ \A r \in 1..Len(e.waits) : e.waits[r] = Min(20, 4 * r)
                /\ (~e.ok /\ e.answers # <<>>
                      /\ e.answers[Len(e.answers)] = HttpAnswer(429)) =>
                       e.requests = OPENAI_MAX_ATTEMPTS

\* the failures of a request that are not a rate-limit answer
OtherFailure(answer) == answer.raises \/ (IsHttpError(answer) /\ answer.status_code # 429)

\* the first position after pos at which the call turns to a provider or
\* gives up
NextTurn(pos) ==
    CHOOSE q \in (pos + 1)..(Len(TTSChain) + 1) :
        /\ ProviderAt(tts.settings, q) # "skip"
        /\ \A o \in (pos + 1)..(q - 1) : ProviderAt(tts.settings, o) = "skip"

C30_BoundedRequests ==
    /\ [](tts.stage # "idle" =>
            /\ tts.pos <= Len(TTSChain) + 1
            /\ Len(tts.log) <= Len(TTSChain) + 1
            /\ \A k \in 1..Len(tts.log) :
                   /\ tts.log[k].provider = "elevenlabs" => tts.log[k].requests <= 1
                   /\ tts.log[k].provider = "openai" => tts.log[k].requests <= 5
            /\ Cardinality({k \in 1..Len(tts.log) : tts.log[k].forced}) <= 1
            /\ (TTSDone /\ \A k \in 1..Len(tts.log) :
                               tts.log[k].forced \/ ~tts.log[k].ok) =>
                   IF KeyTruthy(tts.settings.openai_api_key)
                   THEN /\ tts.log # <<>>
                        /\ tts.log[Len(tts.log)].forced
                        /\ tts.log[Len(tts.log)].provider = "openai"
                        /\ ~tts.log[Len(tts.log)].ok =>
                               /\ tts.stage = "raised"
                               /\ tts.error = tts.log[Len(tts.log)].error
                   ELSE /\ \A k \in 1..Len(tts.log) : ~tts.log[k].forced
                        /\ tts.stage = "raised")
    /\ [][tts.stage = "chain" =>
             \/ tts'.stage \in {"returned", "raised"}
             \/ tts'.stage = "chain" /\ tts'.pos = tts.pos + 1]_vars
    /\ [][TTSDone => tts' = tts]_vars

\* chain [openai] with an OpenAI key: the chain attempt is rate limited five
\* times, and the forced attempt, rate limited five times again, raises
C30_Witness ==
    /\ tts.stage = "raised"
    /\ TTSChain = <<"openai">>
    /\ Len(tts.log) = 2
    /\ tts.log[1].requests = 5
    /\ ~tts.log[1].forced
    /\ tts.log[2].forced
    /\ tts.log[2].requests = 5
    /\ tts.error = "HTTPError429"

-----------------------------------------------------------------------------
(* properties of the store and the worker, under Spec *)

StatusMove(before, after) ==
    \/ after = before
    \/ <<before, after>> \in {<<"queued", "processing">>, <<"processing", "ready">>,
                              <<"processing", "failed">>}

C2_ProgressMonotone ==
    /\ [](\A j \in DOMAIN jobs : jobs[j].status = "ready" => jobs[j].progress = 100)
    /\ [][\A j \in DOMAIN jobs' :
             IF j \in DOMAIN jobs
             THEN jobs'[j].status = "processing" =>
                      jobs'[j].progress >= jobs[j].progress
             ELSE jobs'[j].progress = 0]_vars

\* a processing job whose progress was written after the first of two pages
C2_Witness ==
    \E j \in DOMAIN jobs :
        /\ jobs[j].status = "processing"
        /\ jobs[j].progress = 50
        /\ wk.pc = "page"
        /\ wk.job.job_id = j
        /\ wk.index = 1

\* C3: when an exception leaves process_chapter while a page is being
\* processed, the job's status is failed, its error field holds a message,
\* and its progress is the last value written before the error.
C3_FailedOnError ==
    \A j \in DOMAIN runs :
        runs[j].outcome = "raised" =>
            /\ jobs[j].status = "failed"
            /\ jobs[j].error # NoError
            /\ jobs[j].progress = runs[j].progress

\* C4: a stored chapter whose status is ready has exactly one page per file
\* the job was given, in the order of the files, with page_index 0..n-1,
\* whatever went wrong while the pages were processed.
C4_ReadyChapterComplete ==
    \A c \in DOMAIN chapters :
        chapters[c].status = "ready" =>
            /\ c \in DOMAIN runs
            /\ Len(chapters[c].pages) = Len(runs[c].files)
            /\ \A k \in 1..Len(chapters[c].pages) :
                   /\ chapters[c].pages[k].page_index = k - 1
                   /\ chapters[c].pages[k].image_url = runs[c].files[k].image_url

\* a ready chapter of two pages, the first without a bubble because the
\* vision call failed on it
C4_Witness ==
    \E c \in DOMAIN chapters :
        /\ chapters[c].status = "ready"
        /\ Len(chapters[c].pages) = 2
        /\ chapters[c].pages[1].items = <<>>
        /\ chapters[c].pages[2].items # <<>>

\* C27: once process_chapter has returned for a job without raising,
\* whatever files it was given, the job is ready with progress 100 and the
\* chapter stored for it is ready; no job is still processing after its
\* run ended normally.
C27_ReturnedMeansReady ==
    \A j \in DOMAIN runs :
        runs[j].outcome = "returned" =>
            /\ jobs[j].status = "ready"
            /\ jobs[j].progress = 100
            /\ jobs[j].chapter_id \in DOMAIN chapters
            /\ chapters[jobs[j].chapter_id].status = "ready"

\* C29: a ready job's chapter_id names a stored chapter that is ready with
\* progress 100; the finished chapter is saved before the job is marked
\* ready, so the placeholder is never read behind a ready job.
C29_ReadyJobHasReadyChapter ==
    \A j \in DOMAIN jobs :
        jobs[j].status = "ready" =>
            /\ jobs[j].chapter_id # NoChapter
            /\ jobs[j].chapter_id \in DOMAIN chapters
            /\ chapters[jobs[j].chapter_id].status = "ready"
            /\ chapters[jobs[j].chapter_id].progress = 100

\* a job marked ready at the end of a run over two files, its chapter
\* stored with both pages
C29_Witness ==
    \E j \in DOMAIN jobs :
        /\ jobs[j].status = "ready"
        /\ jobs[j].chapter_id \in DOMAIN chapters
        /\ Len(chapters[jobs[j].chapter_id].pages) = 2
        /\ wk.pc = "idle"
        /\ runs[j].outcome = "returned"

\* C14: a processing job's progress lies in [10, 90]; progress is 0 only on
\* the queued record of the creation and 100 only on a ready job.
C14_ProgressBand ==
    \A j \in DOMAIN jobs :
        /\ jobs[j].status = "processing" =>
               (10 <= jobs[j].progress /\ jobs[j].progress <= 90)
        /\ jobs[j].progress = 0 => jobs[j].status = "queued"
        /\ jobs[j].progress = 100 => jobs[j].status = "ready"

\* C14, as the code has it: a processing job's progress is the 5 written by
\* enqueue_chapter_job or lies in [10, 90]; progress is 0 exactly on a queued
\* job and 100 exactly on a ready job.
C14_ProgressBandFrom5 ==
    \A j \in DOMAIN jobs :
        /\ jobs[j].status = "processing" =>
               \/ jobs[j].progress = 5
               \/ (10 <= jobs[j].progress /\ jobs[j].progress <= 90)
        /\ jobs[j].progress = 0 <=> jobs[j].status = "queued"
        /\ jobs[j].progress = 100 <=> jobs[j].status = "ready"

\* the worker on the first page of a job whose progress is still the 5 of
\* the submission
C14_Witness ==
    /\ wk.pc = "page"
    /\ wk.index = 0
    /\ jobs[wk.job.job_id].status = "processing"
    /\ jobs[wk.job.job_id].progress = 5

T_no_text_detected ==
    <<"n","o"," ","t","e","x","t"," ","d","e","t","e","c","t","e","d">>

\* C18: a page for which no candidate was gathered (no bubble of it reached
\* STEP 3) is appended with exactly one placeholder "no text detected"
\* bubble in items and reading_order; no page has an empty item list.
C18_PlaceholderWhenNoCandidate ==
    wk.pc \in {"page", "save", "finish"} =>
        \A k \in 1..Len(wk.pages) :
            LET page == wk.pages[k]
                voiced == {c \in 1..Len(wk.calls) : wk.calls[c].page_index = k - 1}
            IN  /\ page.items # <<>>
                /\ page.reading_order # <<>>
                /\ voiced = {} =>
                       /\ Len(page.items) = 1
                       /\ Len(page.reading_order) = 1
                       /\ LowerText(page.items[1].text) = T_no_text_detected

-----------------------------------------------------------------------------
(* properties of ChapterStore.update_job, under SpecStore *)

-----------------------------------------------------------------------------
(* properties of the voice assignment, under SpecVoice *)

\* the bubbles the continuity rule is about: a character type that is not
\* empty, unknown or sfx-like, and a kind that is not sfx or narration
Continuity(call) ==
    /\ call.character_key \notin {<<>>, S_unknown, S_sfx_autodetect}
    /\ call.type \notin {"sfx", "narration"}

OwnVoice(analysis) ==
    [voice_id |-> analysis.voice_suggestion, stability |-> analysis.stability,
     similarity_boost |-> analysis.similarity_boost, style |-> analysis.style]

\* C8: within one job, two bubbles (of one page or of two) of the same
\* normalized character_type, unknown and sfx-like types and sfx and
\* narration bubbles set aside, are synthesized with the same voice_id,
\* stability, similarity_boost and style, those of the first such bubble,
\* whatever their own analysis says; in bring_to_life mode these are the
\* values of the first bubble's analysis.
C8_SameCharacterSameVoice ==
    wk.pc # "idle" =>
        \A i, j \in 1..Len(wk.calls) :
            (/\ i <= j
             /\ Continuity(wk.calls[i])
             /\ Continuity(wk.calls[j])
             /\ wk.calls[i].character_key = wk.calls[j].character_key
             /\ \A h \in 1..(i - 1) :
                    Continuity(wk.calls[h]) =>
                        wk.calls[h].character_key # wk.calls[i].character_key) =>
                /\ wk.calls[j].voice = wk.calls[i].voice
                /\ wk.job.processing_mode = "bring_to_life" =>
                       wk.calls[i].voice = OwnVoice(wk.calls[i].analysis)

\* bring_to_life: the same character on two pages, in moods that give
\* different settings, synthesized with the settings of the first page
C8_Witness ==
    /\ wk.pc # "idle"
    /\ wk.job.processing_mode = "bring_to_life"
    /\ \E i, j \in 1..Len(wk.calls) :
          /\ wk.calls[i].page_index < wk.calls[j].page_index
          /\ Continuity(wk.calls[i])
          /\ Continuity(wk.calls[j])
          /\ wk.calls[i].character_key = wk.calls[j].character_key
          /\ OwnVoice(wk.calls[i].analysis) # OwnVoice(wk.calls[j].analysis)
          /\ wk.calls[j].voice = OwnVoice(wk.calls[i].analysis)

-----------------------------------------------------------------------------
(* properties of narrate mode, under SpecNarrate *)

\* the item emitted for the bubble a synthesize call was made for
ItemOf(call) ==
    LET page == wk.pages[call.page_index + 1]
    IN  page.items[CHOOSE i \in 1..Len(page.items) :
                       page.items[i].bubble_id = <<call.page_index, call.bubble_idx>>]

\* C19: in narrate mode a bubble whose kind from analysis is not sfx but
\* whose text is short and mostly uppercase or holds a sound-effect keyword
\* is emitted with type sfx and without narration audio.
C19_SfxLikeExcluded ==
    (wk.pc \in {"page", "save", "finish"} /\ wk.job.processing_mode = "narrate") =>
        \A c \in 1..Len(wk.calls) :
            (/\ wk.calls[c].page_index < Len(wk.pages)
             /\ _bubble_kind_from_analysis(wk.calls[c].analysis) # "sfx"
             /\ _looks_like_sfx_text(wk.calls[c].text)) =>
                /\ ItemOf(wk.calls[c]).type = "sfx"
                /\ ItemOf(wk.calls[c]).audio_url = ""

\* C20: in narrate mode the voice memo is never read or written and every
\* bubble of the job, whatever its character type or analysis, is given
\* the narrator voice narrator_gender alone decides: the male narrator for
\* "male", the female narrator otherwise.
C20_NarratorVoiceOnly ==
    (wk.pc \in {"page", "save", "finish"} /\ wk.job.processing_mode = "narrate") =>
        LET narrator == IF wk.job.narrator_gender = "male"
                        THEN "voice_narrator_m" ELSE "voice_narrator_f"
        IN  /\ wk.memory = <<>>
            /\ \A c \in 1..Len(wk.calls) :
                   /\ ~wk.calls[c].reuse_allowed
                   /\ wk.calls[c].voice.voice_id = narrator
            /\ \A k \in 1..Len(wk.pages) :
                   \A i \in 1..Len(wk.pages[k].items) :
                       wk.pages[k].items[i].voice_id = narrator

\* a narrate job of a male narrator: an adult man's line and a young
\* woman's line, of different suggested voices, both given the narrator's
C20_Witness ==
    /\ wk.pc = "finish"
    /\ wk.job.processing_mode = "narrate"
    /\ wk.job.narrator_gender = "male"
    /\ \E c, d \in 1..Len(wk.calls) :
          /\ wk.calls[c].character_key # wk.calls[d].character_key
          /\ wk.calls[c].analysis.voice_suggestion # wk.calls[d].analysis.voice_suggestion
          /\ Continuity(wk.calls[c])
          /\ wk.calls[c].voice.voice_id = "voice_narrator_m"
          /\ wk.calls[d].voice.voice_id = "voice_narrator_m"

-----------------------------------------------------------------------------
(* properties of the pages and of update_speaker, under SpecSpeaker *)

\* every page the worker holds or the store holds
AllPages ==
    {wk.pages[k] : k \in (IF wk.pc = "idle" THEN {} ELSE 1..Len(wk.pages))}
    \cup UNION {Range(chapters[c].pages) : c \in DOMAIN chapters}

TopOf(page, bubble_id) ==
    (CHOOSE item \in Range(page.items) : item.bubble_id = bubble_id).bubble_box[2]

\* C11: on every page process_chapter produced, also after update_speaker
\* requests, reading_order lists the bubble_ids of the page's items, each
\* once and none missing (so the ids are unique within the page), by
\* ascending top edge of the bubble_box.
C11_ReadingOrderSorted ==
    \A page \in AllPages :
        /\ Len(page.reading_order) = Len(page.items)
        /\ \A i, j \in 1..Len(page.items) :
              i # j => page.items[i].bubble_id # page.items[j].bubble_id
        /\ \A i \in 1..Len(page.items) :
              Cardinality({k \in 1..Len(page.reading_order) :
                              page.reading_order[k] = page.items[i].bubble_id}) = 1
        /\ \A k \in 1..(Len(page.reading_order) - 1) :
              TopOf(page, page.reading_order[k]) <= TopOf(page, page.reading_order[k + 1])

\* a stored page whose bubbles were found out of reading order (the second
\* one in a gap above the first), after an update_speaker request wrote it
C11_Witness ==
    /\ 1 \in DOMAIN chapters
    /\ chapters[1].status = "ready"
    /\ Len(chapters[1].pages[1].items) >= 2
    /\ chapters[1].pages[1].reading_order[1][2] > chapters[1].pages[1].reading_order[2][2]
    /\ \E h \in Handlers : spk[h].pc = "done" /\ spk[h].written = {1}

\* the bubbles of a speaker in a stored chapter carry what the patch gave
Patched(chapter, speaker_id, patch) ==
    \A p \in 1..Len(chapter.pages) :
        \A i \in 1..Len(chapter.pages[p].items) :
            LET bubble == chapter.pages[p].items[i]
            IN  bubble.speaker_id = speaker_id =>
                    /\ patch.display_name.given =>
                           bubble.speaker_name = patch.display_name.value
                    /\ patch.voice_id.given => bubble.voice_id = patch.voice_id.value

\* C16: read-modify-write on a chapter record is atomic: once an
\* update_speaker request has returned, every chapter it wrote carries its
\* update, whatever other request touched the chapter meanwhile; no update
\* is lost.
C16_NoLostUpdate ==
    \A h \in Handlers :
        (spk[h].pc = "done" /\ spk[h].outcome = "returned") =>
            \A chapter_id \in spk[h].written :
                Patched(chapters[chapter_id], spk[h].speaker_id, spk[h].patch)

\* what update_speaker makes of a bubble it read as old: new
BubbleUpdated(old, new, speaker_id, patch) ==
    IF old.speaker_id # speaker_id THEN new = old
    ELSE /\ DOMAIN new = DOMAIN old
         /\ \A f \in DOMAIN old \ {"speaker_name", "voice_id", "audio_url", "word_times"} :
                new[f] = old[f]
         /\ new.speaker_name = (IF patch.display_name.given
                                THEN patch.display_name.value ELSE old.speaker_name)
         /\ IF patch.voice_id.given
            THEN /\ new.voice_id = patch.voice_id.value
                 /\ new.audio_url = AudioUrlOf("openai")
                 /\ new.word_times = _approximate_word_times(old.text)
            ELSE /\ new.voice_id = old.voice_id
                 /\ new.audio_url = old.audio_url
                 /\ new.word_times = old.word_times

\* what update_speaker makes of a chapter it read as old: new
ChapterUpdated(old, new, speaker_id, patch) ==
    /\ DOMAIN new = DOMAIN old
    /\ \A f \in DOMAIN old \ {"pages"} : new[f] = old[f]
    /\ Len(new.pages) = Len(old.pages)
    /\ \A p \in 1..Len(old.pages) :
           /\ DOMAIN new.pages[p] = DOMAIN old.pages[p]
           /\ \A f \in DOMAIN old.pages[p] \ {"items"} : new.pages[p][f] = old.pages[p][f]
           /\ Len(new.pages[p].items) = Len(old.pages[p].items)
           /\ \A i \in 1..Len(old.pages[p].items) :
                  BubbleUpdated(old.pages[p].items[i], new.pages[p].items[i],
                                speaker_id, patch)

-----------------------------------------------------------------------------
(* properties of _segment_vertical_ranges, under SpecSegment *)

\* C22: with the defaults, a height of at most 1500 gives the single range
\* (0, height); a greater height gives ranges of which the first starts at
\* 0, each two consecutive ones share at least 500 rows, no row of the page
\* is outside every range, and the last ends at height.
C22_SegmentsCoverAndOverlap ==
    (sg.stage = "ranges" /\ sg.given = <<>>) =>
        IF sg.height <= 1500
        THEN sg.ranges = <<<<0, sg.height>>>>
        ELSE /\ Len(sg.ranges) >= 2
             /\ sg.ranges[1][1] = 0
             /\ sg.ranges[Len(sg.ranges)][2] = sg.height
             /\ \A k \in 1..(Len(sg.ranges) - 1) :
                    /\ sg.ranges[k + 1][1] > sg.ranges[k][1]
                    /\ sg.ranges[k][2] - sg.ranges[k + 1][1] >= 500
             /\ \A k \in 1..Len(sg.ranges) : sg.ranges[k][1] < sg.ranges[k][2]
             /\ \A row \in {sg.ranges[k][2] : k \in 1..(Len(sg.ranges) - 1)} :
                    \E k \in 1..Len(sg.ranges) :
                        sg.ranges[k][1] <= row /\ row < sg.ranges[k][2]

\* a page of 3001 rows cut with the defaults into four ranges, the last
\* one a single row longer than the overlap
C22_Witness ==
    /\ sg.stage = "ranges"
    /\ sg.given = <<>>
    /\ sg.height = 3001
    /\ sg.ranges = <<<<0, 1500>>, <<750, 2250>>, <<1500, 3000>>, <<2250, 3001>>>>

\* C23: for a height above max_height, whatever max_height and overlap,
\* each range after the first starts step after the one before, where
\* step = max(400, max_height - overlap) with overlap capped at
\* max_height / 2 first.
C23_RangesAdvanceByStep ==
    (sg.stage = "ranges" /\ sg.height > sg.max_height) =>
        LET capped == IF sg.overlap < sg.max_height \div 2
                      THEN sg.overlap ELSE sg.max_height \div 2
            step == IF sg.max_height - capped > 400
                    THEN sg.max_height - capped ELSE 400
        IN  \A k \in 2..Len(sg.ranges) :
                sg.ranges[k][1] = sg.ranges[k - 1][1] + step

-----------------------------------------------------------------------------
(* properties of the bubble boxes, under SpecBoxes *)

\* C24: every bubble of a stored chapter has a bubble_box (x0, y0, x1, y1)
\* with x0 < x1 and y0 < y1, whatever the page size and the number of
\* entries the extraction returned.
C24_BoxesWellFormed ==
    \A c \in DOMAIN chapters :
        \A p \in 1..Len(chapters[c].pages) :
            \A i \in 1..Len(chapters[c].pages[p].items) :
                LET bubble_box == chapters[c].pages[p].items[i].bubble_box
                IN  /\ bubble_box[1] < bubble_box[3]
                    /\ bubble_box[2] < bubble_box[4]

-----------------------------------------------------------------------------
(* properties of gap recovery, under SpecGaps *)

\* C12: whatever the page and the bubbles accepted on it, gap recovery
\* hands at most 5 regions to the vision service, and each region it hands
\* over is at least 380 pixels tall.
C12_GapRecoveryBounded ==
    gp.stage = "recovered" =>
        /\ Len(gp.scans) <= 5
        /\ \A k \in 1..Len(gp.scans) :
              gp.scans[k].region[2] - gp.scans[k].region[1] >= 380

\* a page with more than 5 gaps, 5 of them scanned, a bubble recovered
C12_Witness ==
    /\ gp.stage = "recovered"
    /\ Len(gp.gaps) > 5
    /\ Len(gp.scans) = 5
    /\ Len(gp.vision_bubbles) > Len(gp.bubbles)

\* C28: when a call of the vision model fails partway through a page, on
\* a later slice of the main pass or on the crop of a gap, the candidates
\* the earlier calls gathered for the page are kept and are the page's
\* bubbles.
C28_GatheredCandidatesKept ==
    /\ gp.stage \in {"bubbles", "recovered"} =>
           \A k \in 2..Len(gp.answers) :
               (gp.answers[k].raises /\ \A o \in 1..(k - 1) : ~gp.answers[o].raises) =>
                   \A o \in 1..(k - 1) :
                       gp.answers[o].entries # <<>> =>
                           \E b \in 1..Len(gp.bubbles) :
                               /\ gp.bubbles[b].text = gp.answers[o].entries[1].text
                               /\ gp.bubbles[b].box[2] >= (o - 1) * 750
                               /\ gp.bubbles[b].box[4] <= (o - 1) * 750 + 1500
    /\ gp.stage = "recovered" =>
           /\ Len(gp.vision_bubbles) >= Len(gp.bubbles)
           /\ SubSeq(gp.vision_bubbles, 1, Len(gp.bubbles)) = gp.bubbles
           /\ \A k \in 1..Len(gp.scans) :
                  (/\ gp.gap_answers # <<>>
                   /\ ~gp.gap_answers[k][1].raises
                   /\ gp.gap_answers[k][1].entries # <<>>) =>
                      \E b \in 1..Len(gp.vision_bubbles) :
                          /\ gp.vision_bubbles[b].text = gp.gap_answers[k][1].entries[1].text
                          /\ gp.vision_bubbles[b].box[2] >= gp.scans[k].region[1]
                          /\ gp.vision_bubbles[b].box[4] <= gp.scans[k].region[2]

-----------------------------------------------------------------------------
(* properties of the worker on a long chapter, under SpecLong *)

\* C13: once the k-th of n pages is done (1 <= k <= n) the job's progress
\* is 10 + floor(k * 80 / n), the greatest p with (p - 10) * n <= k * 80;
\* it is 50 after page 1 of 2; and once process_chapter has returned the
\* job has progress 100 and status ready.
C13_ProgressAfterPage ==
    /\ wk.pc \in {"page", "save", "finish"} /\ wk.index >= 1 =>
          LET n == Len(wk.job.files)
              k == wk.index
              p == jobs[wk.job.job_id].progress
          IN  /\ (p - 10) * n <= k * 80
              /\ k * 80 < (p - 10 + 1) * n
              /\ (n = 2 /\ k = 1 => p = 50)
    /\ \A j \in DOMAIN runs :
          runs[j].outcome = "returned" =>
              jobs[j].progress = 100 /\ jobs[j].status = "ready"

\* two of three pages done: 10 + floor(160 / 3) = 63
C13_Witness ==
    /\ wk.pc = "page"
    /\ Len(wk.job.files) = 3
    /\ wk.index = 2
    /\ jobs[wk.job.job_id].progress = 63

\* C17: a page whose text extraction raised, timed out or returned no
\* candidate does not fail the job: when every other step succeeds, no
\* exception leaves process_chapter and no job is failed, each page done is
\* in the chapter at its page_index, the pages after it are processed, and
\* once process_chapter has returned the job and the chapter are ready
\* with all the pages.
C17_ExtractionFailureTolerated ==
    /\ \A j \in DOMAIN runs : runs[j].outcome # "raised"
    /\ \A j \in DOMAIN jobs : jobs[j].status # "failed"
    /\ wk.pc # "idle" =>
          /\ Len(wk.pages) = wk.index
          /\ \A k \in 1..Len(wk.pages) : wk.pages[k].page_index = k - 1
    /\ \A j \in DOMAIN runs :
          runs[j].outcome = "returned" =>
              /\ jobs[j].status = "ready"
              /\ chapters[jobs[j].chapter_id].status = "ready"
              /\ DOMAIN chapters[jobs[j].chapter_id].pages = DOMAIN runs[j].files

\* a ready job of three pages: no text on the first and on the last, a
\* bubble on the second
C17_Witness ==
    /\ 1 \in DOMAIN runs
    /\ runs[1].outcome = "returned"
    /\ jobs[1].status = "ready"
    /\ Len(chapters[1].pages) = 3
    /\ chapters[1].pages[1].items = <<>>
    /\ chapters[1].pages[2].items # <<>>
    /\ chapters[1].pages[3].items = <<>>

=============================================================================
